---- MODULE Spec2Model ----
(***************************************************************************)
(* Model of the application lifecycle supervisor of 242617/core:           *)
(* Application.Run, Application.start (with rollback), Application.stop    *)
(* and setupSignalHandling, together with the environment that drives     *)
(* them (Exit, context cancellation, OS signals, deadlines, components).   *)
(***************************************************************************)
EXTENDS Integers, Sequences, FiniteSets, TLC

(* ------------------------------ bounds -------------------------------- *)

\* number of components given to WithComponents
NumComponents == 3
\* number of calls of Run made on the one supervisor
NumRunCalls == 2
\* number of things the environment does during one behaviour: calls of Exit,
\* cancellations, OS signals and deadline expiries
MaxEvents == 2
\* auxiliary goroutines outstanding in a.wg when Run is called
MaxWork == 1

Indices == 1..NumComponents
Runners == 1..NumRunCalls
\* display names the components may carry
NameTable == <<"a", "b", "c", "d", "e">>
\* the registries Run is tried on: one with pairwise distinct display names
\* and one in which the first two components share a display name
UniqueNames == [k \in Indices |-> NameTable[k]]
DuplicateNames == [k \in Indices |-> IF k = 2 THEN NameTable[1] ELSE NameTable[k]]
Registries == {UniqueNames, DuplicateNames}
\* signals the operating system may deliver to the process
Signals == {"SIGTERM", "SIGINT"}

(* --------------------------- error values ----------------------------- *)

Nil == [t |-> "nil"]
\* the error a component's own Start or Stop body returns
CauseOf(op, i) == [t |-> "cause", op |-> op, idx |-> i]
ErrApplicationAlreadyStarted == [t |-> "sentinel", msg |-> "application already started"]
ComponentPhaseStart == "start"
ComponentPhaseStop == "stop"
ComponentError(name, phase, err) ==
    [t |-> "ComponentError", Component |-> name, Phase |-> phase, Err |-> err]
\* fmt.Errorf("<msg>: %w", err)
Errorf(msg, err) == [t |-> "wrap", msg |-> msg, Err |-> err]
\* errors.Join(errs...)
Join(errs) == [t |-> "join", errs |-> errs]

\* every error reachable from e by the standard unwrap protocol
\* (Unwrap() error and Unwrap() []error), e included
RECURSIVE Chain(_)
Chain(e) ==
    {e} \cup
    (IF e.t \in {"wrap", "ComponentError"} THEN Chain(e.Err)
     ELSE IF e.t = "join" THEN UNION {Chain(e.errs[k]) : k \in DOMAIN e.errs}
     ELSE {})

(* ------------------------------- state -------------------------------- *)

VARIABLES
    names,          \* a.components: display name of the component at each index
    started,        \* a.started
    startedMu,      \* a.startedMu: 0 when free, else the Run call holding it
    stopCh,         \* a.stopCh: number of tokens in the one-slot buffer
    appCtxDone,     \* a.ctx is cancelled (a.cancel was called)
    ctxDone,        \* the caller's context passed to Run is cancelled
    wg,             \* a.wg: outstanding-work counter
    pc,             \* position of each Run call
    i,              \* loop index of start / rollback / stop in each Run call
    startedComponents, \* local list of start(): names of started components
    startErr,       \* the *ComponentError handed to rollback
    errs,           \* local list of stop()
    ret,            \* value returned by each Run call
    waitCause,      \* which case of Run's select fired: "shutdownCh" or "ctx"
    startExpired,   \* the start deadline of the Run call has passed
    stopExpired,    \* the stop deadline of the Run call has passed
    shutdownCh,     \* per Run call: "none", "open" or "closed"
    gpc,            \* position of the goroutine of setupSignalHandling
    sigCh,          \* per goroutine: signals buffered in sigCh (capacity 1)
    killed,         \* the process was terminated by an unhandled signal
    exitCalls,      \* calls of Exit made so far
    events,         \* environment events so far
    sigLog,         \* signals the operating system has delivered, in order
    log,            \* component calls and returns, in order
    \* construction: New(options...)
    options,        \* the options passed to New, in order
    osHostname,     \* what os.Hostname() returns: a name, or "error"
    app,            \* the Application value New is filling in
    optIndex,       \* number of options of append(defaults(), options...) applied
    newPc,          \* "apply" while New applies options, then "returned"
    newErr,         \* the error New returns, nil when it returns the Application
    \* pipeline: Pipeline.Run
    plPc,           \* position of Run in its loop body
    layerIdx,       \* number of layers the loop has taken from p.layers
    layer,          \* the layer the loop is at
    pErr,           \* p.err, the rolling error
    plCtxDone,      \* p.ctx is cancelled
    steps,          \* state of each step of the fan-out in progress
    firstErr,       \* first error returned by a step of the fan-out in progress
    groupCtx,       \* the context errgroup.WithContext derived for the fan-out in progress
    stale,          \* the earliest fan-out process() has returned from with a step still running
    blocked,        \* a goroutine of process() is parked on errCh <- after process() returned
    ran,            \* invocations made for the current layer so far, in order
    errIn,          \* p.err when the loop arrived at the current layer
    failedAt,       \* the layer that left the rolling error and that error; idx 0 if none
    resetAt,        \* index of the reset layer the loop has just passed, 0 if none
    errFuncCalls,   \* calls of the terminal callback so far
    errFuncArg,     \* argument of the last call of the terminal callback
    \* pipeline: a program made with the builder methods
    program,        \* the builder calls that made the program, New first
    built,          \* p.layers as the builder methods left it, <<>> when no program is fixed
    calls,          \* invocations made by Run on the built program, layer after layer
    \* kafka consumer
    cStarted,       \* c.started
    cHasCancel,     \* c.cancelFunc != nil
    cCtxDone,       \* c.ctx is cancelled
    cWg,            \* counter of c.wg
    cRuns,          \* the goroutines of c.run, in the order they were spawned
    cLeft,          \* calls of c.client.LeaveGroup so far
    cClosed,        \* calls of c.client.Close so far
    cPc,            \* position of each caller inside Start or Stop
    cStopCtx,       \* the context each caller handed to its Stop
    cBegun,         \* how many calls had returned when each caller's call began
    cLog,           \* the calls of Start and Stop that have returned
    \* config engine
    sources,        \* c.sources
    supplied,       \* the arguments of the With calls so far, in order
    scanPc,         \* "building", inside Scan, or Scan has returned
    scanIdx,        \* position of the loop of Scan in c.sources
    scanTarget,     \* the value Scan fills: for each field, the source that set it last
    scanned,        \* the sources whose Scan was called, in order
    scanErr,        \* what Scan returned
    pdClosed,       \* p.closed of the Producer
    pdMu,           \* the caller holding p.mu for writing, "free" if none
    pdPc,           \* where each caller of the Producer is
    pdMsgs,         \* the number of messages each caller handed to its call
    pdBegun,        \* whether a Stop had returned when the caller's call began
    pdClientClosed, \* calls of p.client.Close so far
    pdHanded,       \* the hand-overs of records to p.client, in order
    pdLog           \* the calls on the Producer that have returned, in order

vars == <<names, started, startedMu, stopCh, appCtxDone, ctxDone, wg, pc, i,
          startedComponents, startErr, errs, ret, waitCause, startExpired, stopExpired,
          shutdownCh, gpc, sigCh, killed, exitCalls, events, sigLog, log,
          options, osHostname, app, optIndex, newPc, newErr,
          plPc, layerIdx, layer, pErr, plCtxDone, steps, firstErr, groupCtx, stale, blocked, ran,
          errIn, failedAt, resetAt, errFuncCalls, errFuncArg,
          program, built, calls,
          cStarted, cHasCancel, cCtxDone, cWg, cRuns, cLeft, cClosed, cPc, cStopCtx,
          cBegun, cLog,
          sources, supplied, scanPc, scanIdx, scanTarget, scanned, scanErr,
          pdClosed, pdMu, pdPc, pdMsgs, pdBegun, pdClientClosed, pdHanded, pdLog>>

\* variables of Application.Run and of the goroutine of setupSignalHandling
runStateVars == <<names, started, startedMu, stopCh, appCtxDone, ctxDone, wg, pc, i,
          startedComponents, startErr, errs, ret, waitCause, startExpired, stopExpired,
          shutdownCh, gpc, sigCh, killed, exitCalls, events, sigLog, log>>
\* variables of New
cfgVars == <<options, osHostname, app, optIndex, newPc, newErr>>
\* variables of Pipeline.Run
plVars == <<plPc, layerIdx, layer, pErr, plCtxDone, steps, firstErr, groupCtx, stale, blocked, ran,
            errIn, failedAt, resetAt, errFuncCalls, errFuncArg>>

\* variables of a built pipeline program
progVars == <<program, built, calls>>

\* variables of a kafka Consumer
consumerVars == <<cStarted, cHasCancel, cCtxDone, cWg, cRuns, cLeft, cClosed, cPc,
                  cStopCtx, cBegun, cLog>>

\* variables of the config engine
scanVars == <<sources, supplied, scanPc, scanIdx, scanTarget, scanned, scanErr>>

\* variables of a kafka Producer
producerVars == <<pdClosed, pdMu, pdPc, pdMsgs, pdBegun, pdClientClosed, pdHanded, pdLog>>

\* what the steps of Application.Run leave alone
outsideRun == <<cfgVars, plVars, progVars, consumerVars, scanVars, producerVars>>
\* what the steps of New leave alone
outsideNew == <<runStateVars, plVars, progVars, consumerVars, scanVars, producerVars>>
\* what the steps of Pipeline.Run leave alone
outsidePipeline == <<runStateVars, cfgVars, consumerVars, scanVars, producerVars>>
\* what the steps of the Consumer leave alone
outsideConsumer == <<runStateVars, cfgVars, plVars, progVars, scanVars, producerVars>>
\* what the steps of the config engine leave alone
outsideScan == <<runStateVars, cfgVars, plVars, progVars, consumerVars, producerVars>>
\* what the steps of the Producer leave alone
outsideProducer == <<runStateVars, cfgVars, plVars, progVars, consumerVars, scanVars>>

\* variables of the Run calls
runVars == <<pc, i, startedComponents, startErr, errs, ret, waitCause, shutdownCh>>
\* variables only the environment changes
envVars == <<appCtxDone, ctxDone, wg, startExpired, stopExpired, killed,
             exitCalls, events, sigLog>>

\* the Application as New returns it, before the first call of Run
RunInit ==
    /\ names \in Registries
    /\ started = FALSE
    /\ startedMu = 0
    /\ stopCh = 0
    /\ appCtxDone = FALSE
    /\ ctxDone = FALSE
    /\ wg = MaxWork
    /\ pc = [r \in Runners |-> "idle"]
    /\ i = [r \in Runners |-> 0]
    /\ startedComponents = [r \in Runners |-> <<>>]
    /\ startErr = [r \in Runners |-> Nil]
    /\ errs = [r \in Runners |-> <<>>]
    /\ ret = [r \in Runners |-> Nil]
    /\ waitCause = [r \in Runners |-> "none"]
    /\ startExpired = [r \in Runners |-> FALSE]
    /\ stopExpired = [r \in Runners |-> FALSE]
    /\ shutdownCh = [r \in Runners |-> "none"]
    /\ gpc = [r \in Runners |-> "none"]
    /\ sigCh = [r \in Runners |-> <<>>]
    /\ killed = FALSE
    /\ exitCalls = 0
    /\ events = 0
    /\ sigLog = <<>>
    /\ log = <<>>

(* ---------------------------- construction ---------------------------- *)

\* most options in one call of New
MaxOptions == 2
\* most entries in the list given to WithComponents
MaxComponentArgs == 2

\* errors.New(msg)
ErrorsNew(msg) == [t |-> "text", msg |-> msg]

\* the zero value of Application: var a Application
ZeroApplication ==
    [name |-> "", hostname |-> "", startTimeout |-> 0, stopTimeout |-> 0,
     log |-> "nil", components |-> <<>>]

\* 30 * time.Second, in seconds
DefaultTimeout == 30

\* the options defaults() returns, in order
defaults ==
    << [f |-> "WithName", name |-> "application"],
       [f |-> "WithLogger", logger |-> "NopLogger"],
       [f |-> "WithStartTimeout", timeout |-> DefaultTimeout],
       [f |-> "WithStopTimeout", timeout |-> DefaultTimeout],
       [f |-> "withDefaultHostname"] >>

\* WithName(name) applied to a
WithName(name, a) == [app |-> [a EXCEPT !.name = name], err |-> Nil]

\* variant of WithStartTimeout that accepts any duration
WithStartTimeout_NoCheck(timeout, a) ==
    [app |-> [a EXCEPT !.startTimeout = timeout], err |-> Nil]

\* WithStartTimeout(timeout) applied to a
WithStartTimeout(timeout, a) ==
    IF timeout <= 0
    THEN [app |-> a, err |-> ErrorsNew("invalid start timeout")]
    ELSE [app |-> [a EXCEPT !.startTimeout = timeout], err |-> Nil]

\* WithStopTimeout(timeout) applied to a
WithStopTimeout(timeout, a) ==
    IF timeout <= 0
    THEN [app |-> a, err |-> ErrorsNew("invalid stop timeout")]
    ELSE [app |-> [a EXCEPT !.stopTimeout = timeout], err |-> Nil]

\* WithLogger(logger) applied to a
WithLogger(logger, a) ==
    IF logger = "nil"
    THEN [app |-> a, err |-> ErrorsNew("empty logger")]
    ELSE [app |-> [a EXCEPT !.log = logger], err |-> Nil]

\* WithComponents(components...) applied to a
WithComponents(components, a) ==
    [app |-> [a EXCEPT !.components = components], err |-> Nil]

\* WithHostname(hostname) applied to a
WithHostname(hostname, a) ==
    IF hostname = ""
    THEN [app |-> a, err |-> ErrorsNew("empty hostname")]
    ELSE [app |-> [a EXCEPT !.hostname = hostname], err |-> Nil]

\* withDefaultHostname() applied to a, host being the outcome of os.Hostname()
withDefaultHostname(host, a) ==
    IF host = "error"
    THEN [app |-> a, err |-> Errorf("os hostname", ErrorsNew("hostname"))]
    ELSE WithHostname(host, a)

\* the option o called on a
ApplyOption(o, host, a) ==
    CASE o.f = "WithName" -> WithName(o.name, a)
      [] o.f = "WithStartTimeout" -> WithStartTimeout(o.timeout, a)
      [] o.f = "WithStopTimeout" -> WithStopTimeout(o.timeout, a)
      [] o.f = "WithLogger" -> WithLogger(o.logger, a)
      [] o.f = "WithComponents" -> WithComponents(o.components, a)
      [] o.f = "WithHostname" -> WithHostname(o.hostname, a)
      [] o.f = "withDefaultHostname" -> withDefaultHostname(host, a)

\* the lists a caller can give to WithComponents: entries are a component or nil
ComponentLists ==
    UNION {[1..n -> {"nil", "component"}] : n \in 0..MaxComponentArgs}

\* the options a caller can pass to New
OptionValues ==
    {[f |-> "WithName", name |-> n] : n \in {"", "svc", "svc2"}}
    \cup {[f |-> "WithStartTimeout", timeout |-> t] : t \in {0 - 1, 0, 5, 10}}
    \cup {[f |-> "WithStopTimeout", timeout |-> t] : t \in {0 - 1, 0, 5, 10}}
    \cup {[f |-> "WithLogger", logger |-> l] : l \in {"nil", "logger"}}
    \cup {[f |-> "WithHostname", hostname |-> h] : h \in {"", "host"}}
    \cup {[f |-> "WithComponents", components |-> cs] : cs \in ComponentLists}

\* the option lists passed to New
OptionLists == UNION {[1..n -> OptionValues] : n \in 0..MaxOptions}

\* what os.Hostname() can return
OsHostnames == {"error", "", "oshost"}

\* append(defaults(), options...)
AllOptions == defaults \o options

\* New is entered with the given options
NewInit ==
    /\ options \in OptionLists
    /\ osHostname \in OsHostnames
    /\ app = ZeroApplication
    /\ optIndex = 0
    /\ newPc = "apply"
    /\ newErr = Nil

\* New has returned an Application built from the defaults alone
Constructed ==
    /\ options = <<>>
    /\ osHostname = "oshost"
    /\ app = [name |-> "application", hostname |-> "oshost",
              startTimeout |-> DefaultTimeout, stopTimeout |-> DefaultTimeout,
              log |-> "NopLogger", components |-> <<>>]
    /\ optIndex = Len(defaults)
    /\ newPc = "returned"
    /\ newErr = Nil

\* the loop of New over the options: the next option is applied; an error
\* ends New, which returns it
NewApplyOption ==
    /\ newPc = "apply"
    /\ optIndex < Len(AllOptions)
    /\ LET r == ApplyOption(AllOptions[optIndex + 1], osHostname, app)
       IN  /\ app' = r.app
           /\ newErr' = r.err
           /\ newPc' = IF r.err # Nil THEN "returned" ELSE "apply"
    /\ optIndex' = optIndex + 1
    /\ UNCHANGED <<options, osHostname>>
    /\ UNCHANGED outsideNew

\* every option was applied: New returns the Application
NewReturn ==
    /\ newPc = "apply"
    /\ optIndex = Len(AllOptions)
    /\ newPc' = "returned"
    /\ UNCHANGED <<options, osHostname, app, optIndex, newErr>>
    /\ UNCHANGED outsideNew

\* New: one iteration of its loop, or its return
NewNext == NewApplyOption \/ NewReturn

(* --------------------------- initial states --------------------------- *)

\* the zero value of layer
\* which callbacks a layer's slots hold: for each slot the builder call that
\* supplied them, 0 for a slot that is nil
NoCallbacks ==
    [funcs |-> 0, fallbacks |-> 0, thenCatch |-> 0, elseCatch |-> 0, catchers |-> 0,
     before |-> 0, after |-> 0]

ZeroLayer ==
    [funcs |-> 0, fallbacks |-> 0, thenCatcher |-> FALSE, elseCatcher |-> FALSE,
     catchers |-> 0, before |-> FALSE, after |-> FALSE, reset |-> FALSE,
     who |-> NoCallbacks]

\* no step is running of a fan-out process() has returned from
NoStale == [idx |-> 0, slot |-> "none"]

\* a Pipeline on which Run has not been called yet
PipelineInit ==
    /\ plPc = "loop"
    /\ layerIdx = 0
    /\ layer = ZeroLayer
    /\ pErr = Nil
    /\ plCtxDone = FALSE
    /\ steps = <<>>
    /\ firstErr = Nil
    /\ groupCtx = "none"
    /\ stale = NoStale
    /\ blocked = FALSE
    /\ ran = <<>>
    /\ errIn = Nil
    /\ failedAt = [idx |-> 0, err |-> Nil]
    /\ resetAt = 0
    /\ errFuncCalls = 0
    /\ errFuncArg = Nil

\* no program is fixed: Run takes its layers as it goes
NoProgram == program = <<>> /\ built = <<>> /\ calls = <<>>

\* the callers of the Consumer's methods
Callers == {"a", "b"}

\* consumer := &Consumer{}: not started, no context yet, nobody inside a method
ConsumerInit ==
    /\ cStarted = FALSE
    /\ cHasCancel = FALSE
    /\ cCtxDone = FALSE
    /\ cWg = 0
    /\ cRuns = <<>>
    /\ cLeft = 0
    /\ cClosed = 0
    /\ cPc = [c \in Callers |-> "idle"]
    /\ cStopCtx = [c \in Callers |-> "none"]
    /\ cBegun = [c \in Callers |-> 0]
    /\ cLog = <<>>

\* a Producer as New returns it: open, its client untouched
ProducerInit ==
    /\ pdClosed = FALSE
    /\ pdMu = "free"
    /\ pdPc = [c \in Callers |-> "idle"]
    /\ pdMsgs = [c \in Callers |-> 0]
    /\ pdBegun = [c \in Callers |-> FALSE]
    /\ pdClientClosed = 0
    /\ pdHanded = <<>>
    /\ pdLog = <<>>

\* the fields of the scanned struct
Fields == {"Timeout", "Status"}

\* a config source: the fields its Scan sets (for a source whose Scan fails,
\* the fields it had set before it failed), and whether its Scan fails
Source(name, fields, fails) == [name |-> name, fields |-> fields, fails |-> fails]

\* source.Default(): sets the fields that carry a default tag, and fails on a
\* tag it cannot parse
DefaultSources == {Source("default", fs, e) : fs \in SUBSET Fields, e \in BOOLEAN}

\* no field of the scanned value is set
ZeroTarget == [f \in Fields |-> 0]

\* config.New(): the engine holds the default source only
EngineInit(def) ==
    /\ sources = <<def>>
    /\ supplied = <<>>
    /\ scanPc = "building"
    /\ scanIdx = 0
    /\ scanTarget = ZeroTarget
    /\ scanned = <<>>
    /\ scanErr = Nil

\* an engine whose default source sets every field
PlainEngine == EngineInit(Source("default", Fields, FALSE))

\* a constructed Application on which Run has not been called yet
Init ==
    /\ RunInit /\ Constructed /\ PipelineInit /\ NoProgram /\ ConsumerInit /\ PlainEngine
    /\ ProducerInit

\* New is called with some options
NewSpecInit ==
    /\ RunInit /\ names = UniqueNames /\ NewInit /\ PipelineInit /\ NoProgram
    /\ ConsumerInit /\ PlainEngine /\ ProducerInit

\* the behaviours of New
NewSpec == NewSpecInit /\ [][NewNext]_vars

(* ------------------------------ contexts ------------------------------ *)

\* startCtx = context.WithTimeout(ctx, a.startTimeout)
StartCtxDone(r) == ctxDone \/ startExpired[r]
\* stopCtx = context.WithTimeout(ctx, a.stopTimeout)
StopCtxDone(r) == ctxDone \/ stopExpired[r]
\* stopCtx of rollback = context.WithTimeout(startCtx, 5*time.Second), at creation
RollbackCtxDone(r) == StartCtxDone(r)

(* ------------------------------ registry ------------------------------ *)

\* Components.ByName: the first component whose String() equals name, 0 for nil
ByName(name) ==
    IF \E k \in Indices : names[k] = name
    THEN CHOOSE k \in Indices :
            /\ names[k] = name
            /\ \A m \in Indices : names[m] = name => k <= m
    ELSE 0

\* one entry of the history: a call of, or a return from, a component's Start
\* or Stop; for a call of Stop, done tells whether the context passed was
\* already done
Event(r, op, phase, idx, ev, res, done) ==
    [run |-> r, op |-> op, phase |-> phase, idx |-> idx, ev |-> ev,
     res |-> res, ctxDone |-> done]

Append1(f, r, e) == [f EXCEPT ![r] = Append(@, e)]

(* ---------------------------- Application.Run ------------------------- *)

\* a.startedMu.Lock(); the Run calls are numbered in the order they take the lock
RunLock(r) ==
    /\ ~killed
    /\ pc[r] = "idle"
    /\ \A q \in Runners : q < r => pc[q] # "idle"
    /\ startedMu = 0
    /\ startedMu' = r
    /\ pc' = [pc EXCEPT ![r] = "locked"]
    /\ UNCHANGED <<names, started, stopCh, i, startedComponents, startErr, errs,
                   ret, waitCause, shutdownCh, gpc, sigCh, log>>
    /\ UNCHANGED envVars
    /\ UNCHANGED outsideRun

\* variant of RunCheckStarted in which a.startedMu is unlocked only when Run
\* returns at once
RunCheckStarted_KeepsLock(r) ==
    /\ ~killed
    /\ pc[r] = "locked"
    /\ startedMu = r
    /\ IF started
       THEN /\ ret' = [ret EXCEPT ![r] = ErrApplicationAlreadyStarted]
            /\ pc' = [pc EXCEPT ![r] = "returned"]
            /\ startedMu' = 0
            /\ UNCHANGED started
       ELSE /\ started' = TRUE
            /\ pc' = [pc EXCEPT ![r] = "setup"]
            /\ UNCHANGED <<ret, startedMu>>
    /\ UNCHANGED <<names, waitCause, stopCh, i, startedComponents, startErr, errs,
                   shutdownCh, gpc, sigCh, log>>
    /\ UNCHANGED envVars
    /\ UNCHANGED outsideRun

\* variant of RunCheckStarted in which the flag is inspected but never set
RunCheckStarted_NoFlag(r) ==
    /\ ~killed
    /\ pc[r] = "locked"
    /\ startedMu = r
    /\ startedMu' = 0
    /\ IF started
       THEN /\ ret' = [ret EXCEPT ![r] = ErrApplicationAlreadyStarted]
            /\ pc' = [pc EXCEPT ![r] = "returned"]
       ELSE /\ pc' = [pc EXCEPT ![r] = "setup"]
            /\ UNCHANGED ret
    /\ UNCHANGED <<names, started, waitCause, stopCh, i, startedComponents,
                   startErr, errs, shutdownCh, gpc, sigCh, log>>
    /\ UNCHANGED envVars
    /\ UNCHANGED outsideRun

\* if a.started { Unlock; return ErrApplicationAlreadyStarted }; a.started = true; Unlock
RunCheckStarted(r) ==
    /\ ~killed
    /\ pc[r] = "locked"
    /\ startedMu = r
    /\ startedMu' = 0
    /\ IF started
       THEN /\ ret' = [ret EXCEPT ![r] = ErrApplicationAlreadyStarted]
            /\ pc' = [pc EXCEPT ![r] = "returned"]
            /\ UNCHANGED started
       ELSE /\ started' = TRUE
            /\ pc' = [pc EXCEPT ![r] = "setup"]
            /\ UNCHANGED ret
    /\ UNCHANGED <<names, waitCause, stopCh, i, startedComponents, startErr, errs,
                   shutdownCh, gpc, sigCh, log>>
    /\ UNCHANGED envVars
    /\ UNCHANGED outsideRun

\* shutdownCh := a.setupSignalHandling(): makes the channel and spawns the
\* goroutine; then startCtx is derived and a.start(startCtx) is entered
SetupSignalHandling(r) ==
    /\ ~killed
    /\ pc[r] = "setup"
    /\ shutdownCh' = [shutdownCh EXCEPT ![r] = "open"]
    /\ gpc' = [gpc EXCEPT ![r] = "notify"]
    /\ i' = [i EXCEPT ![r] = 1]
    /\ startedComponents' = [startedComponents EXCEPT ![r] = <<>>]
    /\ pc' = [pc EXCEPT ![r] = "start"]
    /\ UNCHANGED <<names, started, startedMu, stopCh, startErr, errs, ret, waitCause,
                   sigCh, log>>
    /\ UNCHANGED envVars
    /\ UNCHANGED outsideRun

(* -------------------------- Application.start ------------------------- *)

\* err := c.Start(ctx) is entered for the component at index i
StartCall(r) ==
    /\ ~killed
    /\ pc[r] = "start"
    /\ i[r] <= NumComponents
    /\ log' = Append(log, Event(r, "Start", "start", i[r], "call", "-", FALSE))
    /\ pc' = [pc EXCEPT ![r] = "inStart"]
    /\ UNCHANGED <<names, started, startedMu, stopCh, i, startedComponents,
                   startErr, errs, ret, waitCause, shutdownCh, gpc, sigCh>>
    /\ UNCHANGED envVars
    /\ UNCHANGED outsideRun

\* index from which rollback walks startedComponents downwards
RollbackLoopStart(r) == Len(startedComponents[r])

\* c.Start(ctx) returns: nil, or an error that sends start() into rollback
StartReturn(r, ok) ==
    /\ ~killed
    /\ pc[r] = "inStart"
    /\ log' = Append(log, Event(r, "Start", "start", i[r], "ret",
                                IF ok THEN "ok" ELSE "err", FALSE))
    /\ IF ok
       THEN /\ startedComponents' = Append1(startedComponents, r, names[i[r]])
            /\ i' = [i EXCEPT ![r] = @ + 1]
            /\ pc' = [pc EXCEPT ![r] = "start"]
            /\ UNCHANGED startErr
       ELSE /\ startErr' = [startErr EXCEPT ![r] =
                    ComponentError(names[i[r]], ComponentPhaseStart, CauseOf("Start", i[r]))]
            /\ i' = [i EXCEPT ![r] = RollbackLoopStart(r)]
            /\ pc' = [pc EXCEPT ![r] = "rollback"]
            /\ UNCHANGED startedComponents
    /\ UNCHANGED <<names, started, startedMu, stopCh, errs, ret, waitCause, shutdownCh,
                   gpc, sigCh>>
    /\ UNCHANGED envVars
    /\ UNCHANGED outsideRun

\* rollback: c := a.components.ByName(startedComponents[i]); c.Stop(stopCtx)
RollbackCall(r) ==
    /\ ~killed
    /\ pc[r] = "rollback"
    /\ i[r] >= 1
    /\ LET c == ByName(startedComponents[r][i[r]]) IN
       IF c # 0
       THEN /\ log' = Append(log, Event(r, "Stop", "rollback", c, "call", "-",
                                        RollbackCtxDone(r)))
            /\ pc' = [pc EXCEPT ![r] = "inRollback"]
            /\ UNCHANGED i
       ELSE /\ i' = [i EXCEPT ![r] = @ - 1]
            /\ UNCHANGED <<log, pc>>
    /\ UNCHANGED <<names, started, startedMu, stopCh, startedComponents,
                   startErr, errs, ret, waitCause, shutdownCh, gpc, sigCh>>
    /\ UNCHANGED envVars
    /\ UNCHANGED outsideRun

\* variant of RollbackNext that abandons the rollback when a Stop fails
RollbackNext_BreakOnError(k, ok) == IF ok THEN k - 1 ELSE 0

\* index rollback continues with after a rollback Stop returned
RollbackNext(k, ok) == k - 1

\* the rollback Stop returns; an error is only logged
RollbackReturn(r, ok) ==
    /\ ~killed
    /\ pc[r] = "inRollback"
    /\ log' = Append(log, Event(r, "Stop", "rollback",
                                ByName(startedComponents[r][i[r]]), "ret",
                                IF ok THEN "ok" ELSE "err", FALSE))
    /\ i' = [i EXCEPT ![r] = RollbackNext(@, ok)]
    /\ pc' = [pc EXCEPT ![r] = "rollback"]
    /\ UNCHANGED <<names, started, startedMu, stopCh, startedComponents,
                   startErr, errs, ret, waitCause, shutdownCh, gpc, sigCh>>
    /\ UNCHANGED envVars
    /\ UNCHANGED outsideRun

\* rollback returns fmt.Errorf("start failed: %w", startErr)
StartFailedError(e) == Errorf("start failed", e)
\* variant of StartApplicationError that formats the cause with %v, which
\* keeps the text and drops the unwrap chain
StartApplicationError_Flattened(e) == [t |-> "text", msg |-> "start application"]

\* Run returns fmt.Errorf("start application: %w", err)
StartApplicationError(e) == Errorf("start application", e)

\* rollback has walked the whole list: start() and then Run return the error
StartFailed(r) ==
    /\ ~killed
    /\ pc[r] = "rollback"
    /\ i[r] < 1
    /\ ret' = [ret EXCEPT ![r] = StartApplicationError(StartFailedError(startErr[r]))]
    /\ pc' = [pc EXCEPT ![r] = "returned"]
    /\ UNCHANGED <<names, waitCause, started, startedMu, stopCh, i, startedComponents,
                   startErr, errs, shutdownCh, gpc, sigCh, log>>
    /\ UNCHANGED envVars
    /\ UNCHANGED outsideRun

\* the start loop is over: start() returns nil and Run reaches its select
StartDone(r) ==
    /\ ~killed
    /\ pc[r] = "start"
    /\ i[r] > NumComponents
    /\ pc' = [pc EXCEPT ![r] = "wait"]
    /\ UNCHANGED <<names, started, startedMu, stopCh, i, startedComponents,
                   startErr, errs, ret, waitCause, shutdownCh, gpc, sigCh, log>>
    /\ UNCHANGED envVars
    /\ UNCHANGED outsideRun

(* ------------------------ Application.Run: wait ----------------------- *)

\* variant of StopLoopStart that is off by one and skips the last component
StopLoopStart_OffByOne == NumComponents - 1

\* index at which the stop loop begins: len(a.components) - 1, counted from 1
StopLoopStart == NumComponents

\* select { case <-shutdownCh: case <-ctx.Done(): }: a case that is ready
\* fires; then stopCtx is derived and a.stop(stopCtx) is entered
Wait(r, cause) ==
    /\ ~killed
    /\ pc[r] = "wait"
    /\ IF cause = "ctx" THEN ctxDone ELSE shutdownCh[r] = "closed"
    /\ waitCause' = [waitCause EXCEPT ![r] = cause]
    /\ i' = [i EXCEPT ![r] = StopLoopStart]
    /\ errs' = [errs EXCEPT ![r] = <<>>]
    /\ pc' = [pc EXCEPT ![r] = "stop"]
    /\ UNCHANGED <<names, started, startedMu, stopCh, startedComponents,
                   startErr, ret, shutdownCh, gpc, sigCh, log>>
    /\ UNCHANGED envVars
    /\ UNCHANGED outsideRun

(* --------------------------- Application.stop ------------------------- *)

\* err := c.Stop(ctx) is entered for the component at index i
StopCall(r) ==
    /\ ~killed
    /\ pc[r] = "stop"
    /\ i[r] >= 1
    /\ log' = Append(log, Event(r, "Stop", "stop", i[r], "call", "-", StopCtxDone(r)))
    /\ pc' = [pc EXCEPT ![r] = "inStop"]
    /\ UNCHANGED <<names, started, startedMu, stopCh, i, startedComponents,
                   startErr, errs, ret, waitCause, shutdownCh, gpc, sigCh>>
    /\ UNCHANGED envVars
    /\ UNCHANGED outsideRun

\* variant of StopNext that leaves the stop loop when a Stop fails
StopNext_BreakOnError(k, ok) == IF ok THEN k - 1 ELSE 0

\* index the stop loop continues with after a Stop returned
StopNext(k, ok) == k - 1

\* c.Stop(ctx) returns; an error is appended to errs as a ComponentError
StopReturn(r, ok) ==
    /\ ~killed
    /\ pc[r] = "inStop"
    /\ log' = Append(log, Event(r, "Stop", "stop", i[r], "ret",
                                IF ok THEN "ok" ELSE "err", FALSE))
    /\ errs' = IF ok THEN errs
               ELSE Append1(errs, r, ComponentError(names[i[r]], ComponentPhaseStop,
                                                    CauseOf("Stop", i[r])))
    /\ i' = [i EXCEPT ![r] = StopNext(@, ok)]
    /\ pc' = [pc EXCEPT ![r] = "stop"]
    /\ UNCHANGED <<names, started, startedMu, stopCh, startedComponents,
                   startErr, ret, waitCause, shutdownCh, gpc, sigCh>>
    /\ UNCHANGED envVars
    /\ UNCHANGED outsideRun

\* the value of ctx.Err() of a cancelled context
ContextCanceled == [t |-> "sentinel", msg |-> "context canceled"]

\* variant of StopResult that reports the context's error when the drain
\* wait ended on ctx.Done()
StopResult_ContextError(es, timedOut) ==
    IF timedOut THEN ContextCanceled
    ELSE IF Len(es) > 0 THEN Join(es) ELSE Nil

\* what stop() returns after the drain wait, given whether the wait ended
\* on ctx.Done(): errors.Join(errs...) if there are errors, else nil
StopResult(es, timedOut) == IF Len(es) > 0 THEN Join(es) ELSE Nil

\* what Run returns after stop(): fmt.Errorf("stop application: %w", err) or nil
RunStopResult(e) == IF e # Nil THEN Errorf("stop application", e) ELSE Nil

\* variant of DrainReady that does not wait for the counter or the context
DrainReady_NoWait(r, timedOut) == TRUE

\* a case of select { case <-done: case <-ctx.Done(): } is ready: done is
\* closed once a.wg.Wait() has returned, ctx is the stop-phase context
DrainReady(r, timedOut) == IF timedOut THEN StopCtxDone(r) ELSE wg = 0

\* the stop loop is over: select { case <-done: case <-ctx.Done(): } where done
\* is closed after a.wg.Wait(); then stop() and Run return
StopDrain(r, timedOut) ==
    /\ ~killed
    /\ pc[r] = "stop"
    /\ i[r] < 1
    /\ DrainReady(r, timedOut)
    /\ ret' = [ret EXCEPT ![r] = RunStopResult(StopResult(errs[r], timedOut))]
    /\ pc' = [pc EXCEPT ![r] = "returned"]
    /\ UNCHANGED <<names, waitCause, started, startedMu, stopCh, i, startedComponents,
                   startErr, errs, shutdownCh, gpc, sigCh, log>>
    /\ UNCHANGED envVars
    /\ UNCHANGED outsideRun

(* ------------------- goroutine of setupSignalHandling ----------------- *)

\* the signals signal.Notify(sigCh, os.Interrupt, os.Kill) can deliver:
\* SIGKILL cannot be caught, so only the interrupt signal is
NotifiedSignals == {"SIGINT"}

\* signal.Notify(sigCh, os.Interrupt, os.Kill)
GoNotify(r) ==
    /\ ~killed
    /\ gpc[r] = "notify"
    /\ gpc' = [gpc EXCEPT ![r] = "select"]
    /\ UNCHANGED <<names, started, startedMu, stopCh, sigCh, log>>
    /\ UNCHANGED runVars
    /\ UNCHANGED envVars
    /\ UNCHANGED outsideRun

\* variant of GoSignal in which the goroutine closes shutdownCh and selects again
GoSignal_SelectsAgain(r) ==
    /\ ~killed
    /\ gpc[r] = "select"
    /\ sigCh[r] # <<>>
    /\ sigCh' = [sigCh EXCEPT ![r] = <<>>]
    /\ shutdownCh' = [shutdownCh EXCEPT ![r] = "closed"]
    /\ UNCHANGED <<names, started, startedMu, stopCh, pc, i, startedComponents,
                   startErr, errs, ret, waitCause, gpc, log>>
    /\ UNCHANGED envVars
    /\ UNCHANGED outsideRun

\* case sig := <-sigCh: close(shutdownCh); deferred signal.Stop(sigCh)
GoSignal(r) ==
    /\ ~killed
    /\ gpc[r] = "select"
    /\ sigCh[r] # <<>>
    /\ sigCh' = [sigCh EXCEPT ![r] = <<>>]
    /\ shutdownCh' = [shutdownCh EXCEPT ![r] = "closed"]
    /\ gpc' = [gpc EXCEPT ![r] = "done"]
    /\ UNCHANGED <<names, started, startedMu, stopCh, pc, i, startedComponents,
                   startErr, errs, ret, waitCause, log>>
    /\ UNCHANGED envVars
    /\ UNCHANGED outsideRun

\* variant of GoStopCh that takes the token and returns without closing shutdownCh
GoStopCh_NoClose(r) ==
    /\ ~killed
    /\ gpc[r] = "select"
    /\ stopCh > 0
    /\ stopCh' = stopCh - 1
    /\ gpc' = [gpc EXCEPT ![r] = "done"]
    /\ UNCHANGED <<names, started, startedMu, sigCh, log>>
    /\ UNCHANGED runVars
    /\ UNCHANGED envVars
    /\ UNCHANGED outsideRun

\* case <-a.stopCh: close(shutdownCh); deferred signal.Stop(sigCh)
GoStopCh(r) ==
    /\ ~killed
    /\ gpc[r] = "select"
    /\ stopCh > 0
    /\ stopCh' = stopCh - 1
    /\ shutdownCh' = [shutdownCh EXCEPT ![r] = "closed"]
    /\ gpc' = [gpc EXCEPT ![r] = "done"]
    /\ UNCHANGED <<names, started, startedMu, sigCh, pc, i, startedComponents,
                   startErr, errs, ret, waitCause, log>>
    /\ UNCHANGED envVars
    /\ UNCHANGED outsideRun

\* case <-a.ctx.Done(): close(shutdownCh); deferred signal.Stop(sigCh)
GoCtxDone(r) ==
    /\ ~killed
    /\ gpc[r] = "select"
    /\ appCtxDone
    /\ shutdownCh' = [shutdownCh EXCEPT ![r] = "closed"]
    /\ gpc' = [gpc EXCEPT ![r] = "done"]
    /\ UNCHANGED <<names, started, startedMu, stopCh, sigCh, pc, i,
                   startedComponents, startErr, errs, ret, waitCause, log>>
    /\ UNCHANGED envVars
    /\ UNCHANGED outsideRun

(* ----------------------------- environment ---------------------------- *)

\* Application.Exit: select { case a.stopCh <- struct{}{}: default: }
Exit ==
    /\ ~killed
    /\ events < MaxEvents
    /\ events' = events + 1
    /\ exitCalls' = exitCalls + 1
    /\ stopCh' = IF stopCh < 1 THEN stopCh + 1 ELSE stopCh
    /\ UNCHANGED <<names, started, startedMu, gpc, sigCh, log>>
    /\ UNCHANGED runVars
    /\ UNCHANGED <<appCtxDone, ctxDone, wg, startExpired, stopExpired, killed, sigLog>>
    /\ UNCHANGED outsideRun

\* the caller cancels the context it passed to Run
CancelCaller ==
    /\ ~killed
    /\ ~ctxDone
    /\ events < MaxEvents
    /\ events' = events + 1
    /\ ctxDone' = TRUE
    /\ UNCHANGED <<names, started, startedMu, stopCh, gpc, sigCh, log>>
    /\ UNCHANGED runVars
    /\ UNCHANGED <<appCtxDone, wg, startExpired, stopExpired, killed, exitCalls, sigLog>>
    /\ UNCHANGED outsideRun

\* a.cancel(): the supervisor's internal context is cancelled
CancelApp ==
    /\ ~killed
    /\ ~appCtxDone
    /\ events < MaxEvents
    /\ events' = events + 1
    /\ appCtxDone' = TRUE
    /\ UNCHANGED <<names, started, startedMu, stopCh, gpc, sigCh, log>>
    /\ UNCHANGED runVars
    /\ UNCHANGED <<ctxDone, wg, startExpired, stopExpired, killed, exitCalls, sigLog>>
    /\ UNCHANGED outsideRun

\* the goroutines whose signal.Notify registration is in force
Registered == {r \in Runners : gpc[r] = "select"}

\* the operating system delivers sig: the Go runtime does a non-blocking send
\* to every registered channel; a signal nobody registered for terminates the
\* process (the default disposition of SIGINT and SIGTERM)
DeliverSignal(sig) ==
    /\ ~killed
    /\ events < MaxEvents
    /\ events' = events + 1
    /\ sigLog' = Append(sigLog, sig)
    /\ IF sig \in NotifiedSignals /\ Registered # {}
       THEN /\ sigCh' = [r \in Runners |->
                           IF r \in Registered /\ sigCh[r] = <<>>
                           THEN <<sig>> ELSE sigCh[r]]
            /\ UNCHANGED killed
       ELSE /\ killed' = TRUE
            /\ UNCHANGED sigCh
    /\ UNCHANGED <<names, started, startedMu, stopCh, gpc, log>>
    /\ UNCHANGED runVars
    /\ UNCHANGED <<appCtxDone, ctxDone, wg, startExpired, stopExpired, exitCalls>>
    /\ UNCHANGED outsideRun

\* the deadline of startCtx passes while the start phase is running
StartDeadline(r) ==
    /\ ~killed
    /\ pc[r] \in {"start", "inStart", "rollback", "inRollback"}
    /\ ~startExpired[r]
    /\ events < MaxEvents
    /\ events' = events + 1
    /\ startExpired' = [startExpired EXCEPT ![r] = TRUE]
    /\ UNCHANGED <<names, started, startedMu, stopCh, gpc, sigCh, log>>
    /\ UNCHANGED runVars
    /\ UNCHANGED <<appCtxDone, ctxDone, wg, stopExpired, killed, exitCalls, sigLog>>
    /\ UNCHANGED outsideRun

\* the deadline of stopCtx passes while the stop phase is running
StopDeadline(r) ==
    /\ ~killed
    /\ pc[r] \in {"stop", "inStop"}
    /\ ~stopExpired[r]
    /\ events < MaxEvents
    /\ events' = events + 1
    /\ stopExpired' = [stopExpired EXCEPT ![r] = TRUE]
    /\ UNCHANGED <<names, started, startedMu, stopCh, gpc, sigCh, log>>
    /\ UNCHANGED runVars
    /\ UNCHANGED <<appCtxDone, ctxDone, wg, startExpired, killed, exitCalls, sigLog>>
    /\ UNCHANGED outsideRun

\* an auxiliary goroutine finishes: a.wg.Done(); nothing reads the counter
\* before the stop phase, so it is taken to finish once a stop phase runs
WorkDone ==
    /\ ~killed
    /\ wg > 0
    /\ \E r \in Runners : pc[r] \in {"stop", "inStop"}
    /\ wg' = wg - 1
    /\ UNCHANGED <<names, started, startedMu, stopCh, gpc, sigCh, log>>
    /\ UNCHANGED runVars
    /\ UNCHANGED <<appCtxDone, ctxDone, startExpired, stopExpired, killed, exitCalls, events, sigLog>>
    /\ UNCHANGED outsideRun

(* --------------------------- specification ---------------------------- *)

Next ==
    \/ \E r \in Runners : RunLock(r)
    \/ \E r \in Runners : RunCheckStarted(r)
    \/ \E r \in Runners : SetupSignalHandling(r)
    \/ \E r \in Runners : StartCall(r)
    \/ \E r \in Runners, ok \in BOOLEAN : StartReturn(r, ok)
    \/ \E r \in Runners : RollbackCall(r)
    \/ \E r \in Runners, ok \in BOOLEAN : RollbackReturn(r, ok)
    \/ \E r \in Runners : StartFailed(r)
    \/ \E r \in Runners : StartDone(r)
    \/ \E r \in Runners, cause \in {"shutdownCh", "ctx"} : Wait(r, cause)
    \/ \E r \in Runners : StopCall(r)
    \/ \E r \in Runners, ok \in BOOLEAN : StopReturn(r, ok)
    \/ \E r \in Runners, timedOut \in BOOLEAN : StopDrain(r, timedOut)
    \/ \E r \in Runners : GoNotify(r)
    \/ \E r \in Runners : GoSignal(r)
    \/ \E r \in Runners : GoStopCh(r)
    \/ \E r \in Runners : GoCtxDone(r)
    \/ Exit
    \/ CancelCaller
    \/ CancelApp
    \/ \E sig \in Signals : DeliverSignal(sig)
    \/ \E r \in Runners : StartDeadline(r)
    \/ \E r \in Runners : StopDeadline(r)
    \/ WorkDone

Spec == Init /\ [][Next]_vars

(* ----------------------------- Pipeline.Run --------------------------- *)

\* most layers in a pipeline program
MaxLayers == 3
\* most steps in one fan-out
MaxSteps == 2

\* the sizes of the fan-outs: no step, one step and the most steps
StepCounts == {0, 1, MaxSteps}

\* the layers the builder methods can produce, as far as Run reads them: a
\* layer{reset: true}, or a layer with some primary steps, some fallback steps
\* and any of the four single slots set; Run does not read layer.catchers
LayerShapes ==
    {[funcs |-> f, fallbacks |-> b, thenCatcher |-> tc, elseCatcher |-> ec,
      catchers |-> 0, before |-> bf, after |-> af, reset |-> FALSE,
      who |-> NoCallbacks] :
        f \in StepCounts, b \in StepCounts,
        tc \in BOOLEAN, ec \in BOOLEAN, bf \in BOOLEAN, af \in BOOLEAN}
    \cup {[ZeroLayer EXCEPT !.reset = TRUE]}

\* the error returned by step k of the given slot of layer l
StepError(l, slot, k) == [t |-> "step", layer |-> l, slot |-> slot, idx |-> k]
\* an error made by the interceptor in the given slot of layer l
CaughtError(l, slot) == [t |-> "caught", layer |-> l, slot |-> slot]

\* one invocation made for a layer: the slot, the argument passed and the result
Invocation(slot, arg, res) == [slot |-> slot, arg |-> arg, res |-> res]

\* where Run goes after the else-catcher's turn
AfterElseCatch == "after"

\* if p.err != nil && layer.elseCatcher != nil
AfterFallback(err, l) ==
    IF err # Nil /\ l.elseCatcher THEN "elseCatch" ELSE AfterElseCatch

\* variant of AfterThenCatch that runs the fallback steps whatever the error
AfterThenCatch_AlwaysFallback(err, l) ==
    IF l.fallbacks > 0 THEN "fallback" ELSE AfterFallback(err, l)

\* if p.err != nil && len(layer.fallbacks) > 0
AfterThenCatch(err, l) ==
    IF err # Nil /\ l.fallbacks > 0 THEN "fallback" ELSE AfterFallback(err, l)

\* variant of AfterPrimary that calls the then-catcher whatever the error
AfterPrimary_AlwaysCatch(err, l) ==
    IF l.thenCatcher THEN "thenCatch" ELSE AfterThenCatch(err, l)

\* if p.err != nil && layer.thenCatcher != nil
AfterPrimary(err, l) ==
    IF err # Nil /\ l.thenCatcher THEN "thenCatch" ELSE AfterThenCatch(err, l)

\* variant of AfterBefore that runs the primary steps whatever the rolling error
AfterBefore_IgnoreError(err, l) ==
    IF l.funcs > 0 THEN "primary" ELSE "after"

\* if p.err == nil && len(layer.funcs) > 0
AfterBefore(err, l) ==
    IF err = Nil /\ l.funcs > 0 THEN "primary" ELSE "after"

\* for _, layer := range p.layers: the loop takes the next layer, l; a reset
\* layer clears p.err and the loop continues with the layer after it
RunLayer(l) ==
    /\ plPc = "loop"
    /\ layerIdx < MaxLayers
    /\ layerIdx' = layerIdx + 1
    /\ IF l.reset
       THEN /\ pErr' = Nil
            /\ failedAt' = [idx |-> 0, err |-> Nil]
            /\ resetAt' = layerIdx + 1
            /\ plPc' = "loop"
            /\ UNCHANGED <<layer, errIn>>
       ELSE /\ layer' = l
            /\ errIn' = pErr
            /\ plPc' = "before"
            /\ UNCHANGED <<pErr, failedAt, resetAt>>
    /\ UNCHANGED <<plCtxDone, steps, firstErr, groupCtx, stale, blocked, ran, errFuncCalls, errFuncArg>>
    /\ UNCHANGED <<outsidePipeline, progVars>>

\* if layer.before != nil { layer.before() }, then the test that guards the
\* steps of the layer
RunBefore ==
    /\ plPc = "before"
    /\ ran' = IF layer.before THEN Append(ran, Invocation("before", Nil, Nil)) ELSE ran
    /\ plPc' = AfterBefore(pErr, layer)
    /\ UNCHANGED <<layerIdx, layer, pErr, plCtxDone, steps, firstErr, groupCtx, stale, blocked, errIn,
                   failedAt, resetAt, errFuncCalls, errFuncArg>>
    /\ UNCHANGED <<outsidePipeline, progVars>>

\* the slot whose steps the fan-out at the given position runs
SlotAt(at) == IF at \in {"primary", "inPrimary"} THEN "funcs" ELSE "fallbacks"

\* p.process(funcs...) is entered: every step is handed to the task group
ProcessStart ==
    /\ plPc \in {"primary", "fallback"}
    /\ steps' = [k \in 1..(IF plPc = "primary" THEN layer.funcs ELSE layer.fallbacks)
                    |-> "running"]
    /\ firstErr' = Nil
    /\ groupCtx' = IF plCtxDone THEN "cancelled" ELSE "live"
    /\ ran' = Append(ran, Invocation(SlotAt(plPc), Nil, Nil))
    /\ plPc' = IF plPc = "primary" THEN "inPrimary" ELSE "inFallback"
    /\ UNCHANGED <<layerIdx, layer, pErr, plCtxDone, stale, blocked, errIn, failedAt, resetAt,
                   errFuncCalls, errFuncArg>>
    /\ UNCHANGED <<outsidePipeline, progVars>>

\* variant of StepReturn whose task group keeps the first error and leaves its
\* context alone
StepReturn_NoCancel(k, ok) ==
    /\ plPc \in {"inPrimary", "inFallback"}
    /\ k \in DOMAIN steps
    /\ steps[k] = "running"
    /\ steps' = [steps EXCEPT ![k] = IF ok THEN "ok" ELSE "err"]
    /\ firstErr' = IF ~ok /\ firstErr = Nil
                   THEN StepError(layerIdx, SlotAt(plPc), k) ELSE firstErr
    /\ groupCtx' = groupCtx
    /\ UNCHANGED <<plPc, layerIdx, layer, pErr, plCtxDone, stale, blocked, ran, errIn, failedAt, resetAt,
                   errFuncCalls, errFuncArg>>
    /\ UNCHANGED <<outsidePipeline, progVars>>

\* step k of the fan-out in progress returns; the task group keeps the first
\* error and cancels the context it derived when a step returns an error
StepReturn(k, ok) ==
    /\ plPc \in {"inPrimary", "inFallback"}
    /\ k \in DOMAIN steps
    /\ steps[k] = "running"
    /\ steps' = [steps EXCEPT ![k] = IF ok THEN "ok" ELSE "err"]
    /\ firstErr' = IF ~ok /\ firstErr = Nil
                   THEN StepError(layerIdx, SlotAt(plPc), k) ELSE firstErr
    /\ groupCtx' = IF ok THEN groupCtx ELSE "cancelled"
    /\ UNCHANGED <<plPc, layerIdx, layer, pErr, plCtxDone, stale, blocked, ran, errIn, failedAt, resetAt,
                   errFuncCalls, errFuncArg>>
    /\ UNCHANGED <<outsidePipeline, progVars>>

\* the last running step of the fan-outs process() has already returned from
\* returns: group.Wait() returns in the goroutine process() started, which
\* then sends on errCh, an unbuffered channel nothing receives from any more
StaleReturn ==
    /\ stale # NoStale
    /\ stale' = NoStale
    /\ blocked' = TRUE
    /\ UNCHANGED <<plPc, layerIdx, layer, pErr, plCtxDone, steps, firstErr, groupCtx, ran, errIn,
                   failedAt, resetAt, errFuncCalls, errFuncArg>>
    /\ UNCHANGED <<outsidePipeline, progVars>>

\* variant of ProcessResult that reports the task group's result in both cases
ProcessResult_GroupOnly(viaCtx) == firstErr

\* case <-p.ctx.Done(): err = p.ctx.Err(); case err = <-errCh: the result of
\* group.Wait(), the first error a step returned
ProcessResult(viaCtx) == IF viaCtx THEN ContextCanceled ELSE firstErr

\* select { case <-p.ctx.Done(): case err = <-errCh: }: errCh delivers
\* group.Wait() once every step has returned; the result becomes p.err and
\* Run goes on with the tests that follow the fan-out
ProcessReturn(viaCtx) ==
    /\ plPc \in {"inPrimary", "inFallback"}
    /\ IF viaCtx THEN plCtxDone ELSE \A k \in DOMAIN steps : steps[k] # "running"
    /\ LET res == ProcessResult(viaCtx)
       IN  /\ pErr' = res
           /\ ran' = [ran EXCEPT ![Len(ran)].res = res]
           /\ plPc' = IF plPc = "inPrimary" THEN AfterPrimary(res, layer)
                                            ELSE AfterFallback(res, layer)
    /\ stale' = IF stale = NoStale /\ \E k \in DOMAIN steps : steps[k] = "running"
                THEN [idx |-> layerIdx, slot |-> SlotAt(plPc)]
                ELSE stale
    /\ blocked' = (blocked \/ (viaCtx /\ \A k \in DOMAIN steps : steps[k] # "running"))
    /\ steps' = <<>>
    /\ firstErr' = Nil
    /\ groupCtx' = "none"
    /\ UNCHANGED <<layerIdx, layer, plCtxDone, errIn, failedAt, resetAt, errFuncCalls, errFuncArg>>
    /\ UNCHANGED <<outsidePipeline, progVars>>

\* what an interceptor returns for err: nil, err itself or an error of its own
InterceptResult(out, err, l, slot) ==
    CASE out = "nil" -> Nil
      [] out = "same" -> err
      [] out = "new" -> CaughtError(l, slot)

\* p.err = p.intercept(layer.thenCatcher) or p.intercept(layer.elseCatcher):
\* the interceptor is called with p.err and its result becomes p.err
Intercept(out) ==
    /\ plPc \in {"thenCatch", "elseCatch"}
    /\ LET res == InterceptResult(out, pErr, layerIdx, plPc)
       IN  /\ ran' = Append(ran, Invocation(plPc, pErr, res))
           /\ pErr' = res
           /\ plPc' = IF plPc = "thenCatch" THEN AfterThenCatch(res, layer)
                                            ELSE AfterElseCatch
    /\ UNCHANGED <<layerIdx, layer, plCtxDone, steps, firstErr, groupCtx, stale, blocked, errIn, failedAt, resetAt,
                   errFuncCalls, errFuncArg>>
    /\ UNCHANGED <<outsidePipeline, progVars>>

\* if layer.after != nil { layer.after() }: the last statement of the loop body
RunAfter ==
    /\ plPc = "after"
    /\ ran' = IF layer.after THEN Append(ran, Invocation("after", Nil, Nil)) ELSE ran
    /\ failedAt' = IF pErr # Nil /\ failedAt.idx = 0
                   THEN [idx |-> layerIdx, err |-> pErr] ELSE failedAt
    /\ plPc' = "endLayer"
    /\ UNCHANGED <<layerIdx, layer, pErr, plCtxDone, steps, firstErr, groupCtx, stale, blocked, errIn,
                   resetAt, errFuncCalls, errFuncArg>>
    /\ UNCHANGED <<outsidePipeline, progVars>>

\* the iteration of the loop ends: the loop variable layer, and what was
\* recorded for it, go out of scope
RunEndLayer ==
    /\ plPc = "endLayer"
    /\ layer' = ZeroLayer
    /\ ran' = <<>>
    /\ errIn' = Nil
    /\ resetAt' = 0
    /\ plPc' = "loop"
    /\ UNCHANGED <<layerIdx, pErr, plCtxDone, steps, firstErr, groupCtx, stale, blocked, failedAt,
                   errFuncCalls, errFuncArg>>
    /\ UNCHANGED <<outsidePipeline, progVars>>

\* variant of RunErrFunc that calls the terminal callback and stays in the loop
RunErrFunc_InsideLoop ==
    /\ plPc = "loop"
    /\ errFuncCalls < 2
    /\ errFuncCalls' = errFuncCalls + 1
    /\ errFuncArg' = pErr
    /\ UNCHANGED <<plPc, layerIdx, layer, pErr, plCtxDone, steps, firstErr, groupCtx, stale, blocked, ran,
                   errIn, failedAt, resetAt>>
    /\ UNCHANGED <<outsidePipeline, progVars>>

\* errFunc(p.err): the loop is over p.layers and the terminal callback is called
RunErrFunc ==
    /\ plPc = "loop"
    /\ errFuncCalls' = errFuncCalls + 1
    /\ errFuncArg' = pErr
    /\ plPc' = "done"
    /\ UNCHANGED <<layerIdx, layer, pErr, plCtxDone, steps, firstErr, groupCtx, stale, blocked, ran, errIn,
                   failedAt, resetAt>>
    /\ UNCHANGED <<outsidePipeline, progVars>>

\* p.ctx is cancelled, by its owner or by its deadline
CancelPipeline ==
    /\ plPc # "done"
    /\ ~plCtxDone
    /\ plCtxDone' = TRUE
    /\ groupCtx' = IF groupCtx = "live" THEN "cancelled" ELSE groupCtx
    /\ UNCHANGED <<plPc, layerIdx, layer, pErr, steps, firstErr, stale, blocked, ran, errIn,
                   failedAt, resetAt, errFuncCalls, errFuncArg>>
    /\ UNCHANGED <<outsidePipeline, progVars>>

PipelineNext ==
    \/ \E l \in LayerShapes : RunLayer(l)
    \/ RunBefore
    \/ ProcessStart
    \/ \E k \in 1..MaxSteps, ok \in BOOLEAN : StepReturn(k, ok)
    \/ StaleReturn
    \/ \E viaCtx \in BOOLEAN : ProcessReturn(viaCtx)
    \/ \E out \in {"nil", "same", "new"} : Intercept(out)
    \/ RunAfter
    \/ RunEndLayer
    \/ RunErrFunc
    \/ CancelPipeline

\* a pipeline on which Run has not been called yet
PipelineSpecInit == Init /\ names = UniqueNames

\* Run is called on a pipeline program
PipelineSpec == PipelineSpecInit /\ [][PipelineNext]_vars

(***************************************************************************)
(* The builder methods, on p.layers.  A step list holds the number of its  *)
(* steps and a single callback slot whether it is set; who tells which     *)
(* builder call supplied the callbacks a slot holds (f, the position of    *)
(* the call in the chain of builder calls).                                *)
(***************************************************************************)

\* builder calls in a chain, after New
MaxChain == 3

\* Then(funcs...): a new layer with these primary steps
Then(ls, n, f) ==
    Append(ls, [ZeroLayer EXCEPT !.funcs = n, !.who.funcs = IF n > 0 THEN f ELSE 0])

\* New(ctx, funcs...): no layers, then Then(funcs...)
New(n, f) == Then(<<>>, n, f)

\* ThenCatch(f), on the last layer
ThenCatch(ls, f) == [ls EXCEPT ![Len(ls)].thenCatcher = TRUE, ![Len(ls)].who.thenCatch = f]

\* variant of Else in which a later call replaces the fallbacks
Else_Overwrites(ls, n, f) ==
    [ls EXCEPT ![Len(ls)].fallbacks = n, ![Len(ls)].who.fallbacks = IF n > 0 THEN f ELSE 0]

\* Else(fallbacks...): only when the last layer has no fallbacks yet
Else(ls, n, f) ==
    IF ls[Len(ls)].fallbacks = 0
    THEN [ls EXCEPT ![Len(ls)].fallbacks = n,
                    ![Len(ls)].who.fallbacks = IF n > 0 THEN f ELSE 0]
    ELSE ls

\* ElseCatch(catcher), on the last layer
ElseCatch(ls, f) == [ls EXCEPT ![Len(ls)].elseCatcher = TRUE, ![Len(ls)].who.elseCatch = f]

\* Catch(catchers...): only when the last layer has no catchers yet
Catch(ls, n, f) ==
    IF ls[Len(ls)].catchers = 0
    THEN [ls EXCEPT ![Len(ls)].catchers = n,
                    ![Len(ls)].who.catchers = IF n > 0 THEN f ELSE 0]
    ELSE ls

\* variant of Before that leaves the layer as it was
Before_Noop(ls, f) == ls

\* Before(before), on the last layer
Before(ls, f) == [ls EXCEPT ![Len(ls)].before = TRUE, ![Len(ls)].who.before = f]

\* After(after), on the last layer
After(ls, f) == [ls EXCEPT ![Len(ls)].after = TRUE, ![Len(ls)].who.after = f]

\* Reset(): a new layer that is only a reset marker
Reset(ls) == Append(ls, [ZeroLayer EXCEPT !.reset = TRUE])

\* one builder call: the method, and the number of steps or catchers it is
\* given (0 for the methods that take one callback or none)
Call(m, n) == [m |-> m, n |-> n]

\* the builder call c, made as the f-th call of the chain
Apply(ls, c, f) ==
    CASE c.m = "Then" -> Then(ls, c.n, f)
      [] c.m = "ThenCatch" -> ThenCatch(ls, f)
      [] c.m = "Else" -> Else(ls, c.n, f)
      [] c.m = "ElseCatch" -> ElseCatch(ls, f)
      [] c.m = "Catch" -> Catch(ls, c.n, f)
      [] c.m = "Before" -> Before(ls, f)
      [] c.m = "After" -> After(ls, f)
      [] c.m = "Reset" -> Reset(ls)

\* p.layers after the first k calls of the chain, whose first call is New
RECURSIVE BuildUpTo(_, _)
BuildUpTo(ch, k) ==
    IF k = 1 THEN New(ch[1].n, 1) ELSE Apply(BuildUpTo(ch, k - 1), ch[k], k)

\* p.layers after the whole chain
Build(ch) == BuildUpTo(ch, Len(ch))

\* New(ctx).Before(b).Then(p...).ThenCatch(tc).Else(f...).ElseCatch(ec).After(a)
ReadmeCalls(n, m) ==
    <<Call("New", 0), Call("Before", 0), Call("Then", n), Call("ThenCatch", 0),
      Call("Else", m), Call("ElseCatch", 0), Call("After", 0)>>
Readme(n, m) == Build(ReadmeCalls(n, m))

\* New(ctx, first...).Catch(c...).Then(third...)
CatchThen(n, c, m) == <<Call("New", n), Call("Catch", c), Call("Then", m)>>

\* New(ctx, first...).Catch(c...).Reset().Then(third...).After(a)
CatchResetThen(n, c, m) ==
    <<Call("New", n), Call("Catch", c), Call("Reset", 0), Call("Then", m),
      Call("After", 0)>>

\* the calls a chain is made of after New: the methods that take steps or
\* catchers are given one
BuilderCalls ==
    {Call(m, 1) : m \in {"Then", "Else", "Catch"}}
    \cup {Call(m, 0) : m \in {"ThenCatch", "ElseCatch", "Before", "After", "Reset"}}

\* New(ctx) or New(ctx, first), followed by up to MaxChain builder calls
ShortChains ==
    UNION {{<<Call("New", n)>> \o tl : tl \in [1..k -> BuilderCalls]} :
              n \in {0, 1}, k \in 0..MaxChain}

\* the programs Run is called on, as chains of builder calls
Programs ==
    {ch \in ShortChains : Len(Build(ch)) <= MaxLayers}
    \cup {ReadmeCalls(n, m) : n \in 1..MaxSteps, m \in 1..MaxSteps}
    \cup {CatchThen(n, c, 1) : n \in 1..MaxSteps, c \in 1..MaxSteps}
    \cup {CatchResetThen(1, 1, m) : m \in 1..MaxSteps}

\* what the layer invoked, each entry with the layer and with the builder
\* call that supplied the callbacks of its slot
Tagged(es, l, idx) ==
    [k \in 1..Len(es) |->
        [slot |-> es[k].slot, arg |-> es[k].arg, res |-> es[k].res,
         layer |-> idx, by |-> l.who[es[k].slot]]]

\* for _, layer := range p.layers, on the built program
RunProgramLayer ==
    /\ layerIdx < Len(built)
    /\ RunLayer(built[layerIdx + 1])

\* the iteration of the loop ends; what the layer invoked stays on record
RunProgramEndLayer ==
    /\ plPc = "endLayer"
    /\ layer' = ZeroLayer
    /\ ran' = <<>>
    /\ calls' = calls \o Tagged(ran, layer, layerIdx)
    /\ errIn' = Nil
    /\ resetAt' = 0
    /\ plPc' = "loop"
    /\ UNCHANGED <<layerIdx, pErr, plCtxDone, steps, firstErr, groupCtx, stale, blocked, failedAt,
                   errFuncCalls, errFuncArg, program, built>>
    /\ UNCHANGED outsidePipeline

\* errFunc(p.err), after the last layer of the built program
RunProgramErrFunc ==
    /\ plPc = "loop"
    /\ layerIdx = Len(built)
    /\ errFuncCalls' = errFuncCalls + 1
    /\ errFuncArg' = pErr
    /\ calls' = Append(calls, [slot |-> "errFunc", arg |-> pErr, res |-> Nil,
                                layer |-> 0, by |-> 0])
    /\ plPc' = "done"
    /\ UNCHANGED <<layerIdx, layer, pErr, plCtxDone, steps, firstErr, groupCtx, stale, blocked, ran, errIn,
                   failedAt, resetAt, program, built>>
    /\ UNCHANGED outsidePipeline

ProgramNext ==
    \/ RunProgramLayer
    \/ RunBefore
    \/ ProcessStart
    \/ \E k \in 1..MaxSteps, ok \in BOOLEAN : StepReturn(k, ok)
    \/ StaleReturn
    \/ \E viaCtx \in BOOLEAN : ProcessReturn(viaCtx)
    \/ \E out \in {"nil", "same", "new"} : Intercept(out)
    \/ RunAfter
    \/ RunProgramEndLayer
    \/ RunProgramErrFunc
    \/ CancelPipeline

\* a built program on which Run has not been called yet
ProgramSpecInit ==
    /\ RunInit /\ Constructed /\ PipelineInit /\ ConsumerInit /\ PlainEngine /\ ProducerInit
    /\ names = UniqueNames
    /\ program \in Programs
    /\ built = Build(program)
    /\ calls = <<>>

\* Run is called on a program made with the builder methods
ProgramSpec == ProgramSpecInit /\ [][ProgramNext]_vars

(***************************************************************************)
(* kafka Consumer: Start, Stop and the goroutine of run.  c.mu is held     *)
(* only across statements that do not block, so each critical section is   *)
(* one step.                                                               *)
(***************************************************************************)

\* calls of Start and Stop made on the consumer, over all callers
MaxCalls == 4

ErrConsumerAlreadyStarted == [t |-> "errors.New", msg |-> "consumer already started"]
ContextDeadlineExceeded == [t |-> "sentinel", msg |-> "context deadline exceeded"]

\* a call that has returned: who called what, how many calls had returned
\* when it began, what Start or Stop found in c.started, the context handed to
\* Stop, and the result
Returned(c, op, found, ctx, res) ==
    [caller |-> c, op |-> op, begun |-> cBegun[c], found |-> found, ctx |-> ctx,
     ret |-> res]

\* the calls made so far, returned or not
CallsMade == Len(cLog) + Cardinality({c \in Callers : cPc[c] # "idle"})

\* a caller enters Start
ConsumerStartCall(c) ==
    /\ cPc[c] = "idle"
    /\ CallsMade < MaxCalls
    /\ cPc' = [cPc EXCEPT ![c] = "start"]
    /\ UNCHANGED <<cStarted, cHasCancel, cCtxDone, cWg, cRuns, cLeft, cClosed, cStopCtx,
                   cLog>>
    /\ cBegun' = [cBegun EXCEPT ![c] = Len(cLog)]
    /\ UNCHANGED outsideConsumer

\* variant of StartRefused that never refuses
StartRefused_Never(isStarted) == FALSE

\* if c.started { return errors.New("consumer already started") }
StartRefused(isStarted) == isStarted

\* the body of Start, under c.mu: refuse when started, else a fresh context,
\* c.started = true, c.wg.Add(1), go c.run(), return nil
StartBody(c) ==
    /\ cPc[c] = "start"
    /\ cPc' = [cPc EXCEPT ![c] = "idle"]
    /\ IF StartRefused(cStarted)
       THEN /\ cLog' = Append(cLog, Returned(c, "Start", cStarted, "none",
                                              ErrConsumerAlreadyStarted))
            /\ UNCHANGED <<cStarted, cHasCancel, cCtxDone, cWg, cRuns>>
       ELSE /\ cHasCancel' = TRUE
            /\ cCtxDone' = FALSE
            /\ cStarted' = TRUE
            /\ cWg' = cWg + 1
            /\ cRuns' = Append(cRuns, "polling")
            /\ cLog' = Append(cLog, Returned(c, "Start", cStarted, "none", Nil))
    /\ UNCHANGED <<cLeft, cClosed, cStopCtx>>
    /\ cBegun' = [cBegun EXCEPT ![c] = 0]
    /\ UNCHANGED outsideConsumer

\* a caller enters Stop with a context whose deadline is sufficient, or with
\* one that may be done before the goroutine of run has finished
ConsumerStopCall(c, ctx) ==
    /\ cPc[c] = "idle"
    /\ CallsMade < MaxCalls
    /\ cPc' = [cPc EXCEPT ![c] = "stop"]
    /\ cStopCtx' = [cStopCtx EXCEPT ![c] = ctx]
    /\ UNCHANGED <<cStarted, cHasCancel, cCtxDone, cWg, cRuns, cLeft, cClosed, cLog>>
    /\ cBegun' = [cBegun EXCEPT ![c] = Len(cLog)]
    /\ UNCHANGED outsideConsumer

\* c.mu.Lock(); if !c.started { c.mu.Unlock(); return nil }; c.mu.Unlock()
StopCheck(c) ==
    /\ cPc[c] = "stop"
    /\ IF ~cStarted
       THEN /\ cPc' = [cPc EXCEPT ![c] = "idle"]
            /\ cLog' = Append(cLog, Returned(c, "Stop", FALSE, cStopCtx[c], Nil))
            /\ cStopCtx' = [cStopCtx EXCEPT ![c] = "none"]
            /\ cBegun' = [cBegun EXCEPT ![c] = 0]
       ELSE /\ cPc' = [cPc EXCEPT ![c] = "stopCancel"]
            /\ UNCHANGED <<cLog, cStopCtx, cBegun>>
    /\ UNCHANGED <<cStarted, cHasCancel, cCtxDone, cWg, cRuns, cLeft, cClosed>>
    /\ UNCHANGED outsideConsumer

\* if c.cancelFunc != nil { c.cancelFunc() }, and the goroutine that waits
\* for c.wg is started
StopCancel(c) ==
    /\ cPc[c] = "stopCancel"
    /\ cCtxDone' = (cHasCancel \/ cCtxDone)
    /\ cPc' = [cPc EXCEPT ![c] = "stopWait"]
    /\ UNCHANGED <<cStarted, cHasCancel, cWg, cRuns, cLeft, cClosed, cStopCtx, cLog>>
    /\ UNCHANGED cBegun
    /\ UNCHANGED outsideConsumer

\* case <-done: c.wg.Wait() has returned
StopDone(c) ==
    /\ cPc[c] = "stopWait"
    /\ cWg = 0
    /\ cPc' = [cPc EXCEPT ![c] = "stopLeave"]
    /\ UNCHANGED <<cStarted, cHasCancel, cCtxDone, cWg, cRuns, cLeft, cClosed, cStopCtx,
                   cLog>>
    /\ UNCHANGED cBegun
    /\ UNCHANGED outsideConsumer

\* case <-ctx.Done(): return ctx.Err()
StopTimeout(c) ==
    /\ cPc[c] = "stopWait"
    /\ cStopCtx[c] = "short"
    /\ cPc' = [cPc EXCEPT ![c] = "idle"]
    /\ cLog' = Append(cLog, Returned(c, "Stop", TRUE, cStopCtx[c], ContextDeadlineExceeded))
    /\ cStopCtx' = [cStopCtx EXCEPT ![c] = "none"]
    /\ UNCHANGED <<cStarted, cHasCancel, cCtxDone, cWg, cRuns, cLeft, cClosed>>
    /\ cBegun' = [cBegun EXCEPT ![c] = 0]
    /\ UNCHANGED outsideConsumer

\* c.client.LeaveGroup()
StopLeaveGroup(c) ==
    /\ cPc[c] = "stopLeave"
    /\ cLeft' = cLeft + 1
    /\ cPc' = [cPc EXCEPT ![c] = "stopClose"]
    /\ UNCHANGED <<cStarted, cHasCancel, cCtxDone, cWg, cRuns, cClosed, cStopCtx, cLog>>
    /\ UNCHANGED cBegun
    /\ UNCHANGED outsideConsumer

\* c.client.Close(); return nil
StopClose(c) ==
    /\ cPc[c] = "stopClose"
    /\ cClosed' = cClosed + 1
    /\ cPc' = [cPc EXCEPT ![c] = "idle"]
    /\ cLog' = Append(cLog, Returned(c, "Stop", TRUE, cStopCtx[c], Nil))
    /\ cStopCtx' = [cStopCtx EXCEPT ![c] = "none"]
    /\ UNCHANGED <<cStarted, cHasCancel, cCtxDone, cWg, cRuns, cLeft>>
    /\ cBegun' = [cBegun EXCEPT ![c] = 0]
    /\ UNCHANGED outsideConsumer

\* run: the loop sees c.ctx cancelled, before or after a poll, and returns
RunLoopExit(g) ==
    /\ cRuns[g] = "polling"
    /\ cCtxDone
    /\ cRuns' = [cRuns EXCEPT ![g] = "exited"]
    /\ UNCHANGED <<cStarted, cHasCancel, cCtxDone, cWg, cLeft, cClosed, cPc, cStopCtx, cLog>>
    /\ UNCHANGED cBegun
    /\ UNCHANGED outsideConsumer

\* variant of RunUnmark that leaves c.started as it is
RunUnmark_KeepsStarted(g) ==
    /\ cRuns[g] = "exited"
    /\ cRuns' = [cRuns EXCEPT ![g] = "unmarked"]
    /\ UNCHANGED <<cStarted, cHasCancel, cCtxDone, cWg, cLeft, cClosed, cPc, cStopCtx, cLog>>
    /\ UNCHANGED cBegun
    /\ UNCHANGED outsideConsumer

\* run: the deferred function that locks c.mu and sets c.started = false
RunUnmark(g) ==
    /\ cRuns[g] = "exited"
    /\ cStarted' = FALSE
    /\ cRuns' = [cRuns EXCEPT ![g] = "unmarked"]
    /\ UNCHANGED <<cHasCancel, cCtxDone, cWg, cLeft, cClosed, cPc, cStopCtx, cLog>>
    /\ UNCHANGED cBegun
    /\ UNCHANGED outsideConsumer

\* run: the deferred c.wg.Done(), the last thing the goroutine does
RunWgDone(g) ==
    /\ cRuns[g] = "unmarked"
    /\ cWg' = cWg - 1
    /\ cRuns' = [cRuns EXCEPT ![g] = "gone"]
    /\ UNCHANGED <<cStarted, cHasCancel, cCtxDone, cLeft, cClosed, cPc, cStopCtx, cLog>>
    /\ UNCHANGED cBegun
    /\ UNCHANGED outsideConsumer

ConsumerNext ==
    \/ \E c \in Callers : ConsumerStartCall(c)
    \/ \E c \in Callers : StartBody(c)
    \/ \E c \in Callers, ctx \in {"sufficient", "short"} : ConsumerStopCall(c, ctx)
    \/ \E c \in Callers : StopCheck(c)
    \/ \E c \in Callers : StopCancel(c)
    \/ \E c \in Callers : StopDone(c)
    \/ \E c \in Callers : StopTimeout(c)
    \/ \E c \in Callers : StopLeaveGroup(c)
    \/ \E c \in Callers : StopClose(c)
    \/ \E g \in 1..MaxCalls : g <= Len(cRuns) /\ RunLoopExit(g)
    \/ \E g \in 1..MaxCalls : g <= Len(cRuns) /\ RunUnmark(g)
    \/ \E g \in 1..MaxCalls : g <= Len(cRuns) /\ RunWgDone(g)

\* a fresh consumer, whose methods the callers call
ConsumerSpecInit == Init /\ names = UniqueNames

\* Start and Stop are called on one consumer, by callers that race
ConsumerSpec == ConsumerSpecInit /\ [][ConsumerNext]_vars

(***************************************************************************)
(* kafka Producer: Produce, ProduceSync and Stop.  Produce and ProduceSync *)
(* hold p.mu for reading only while they read p.closed; Stop holds it for  *)
(* writing until p.client.Close() has returned.                            *)
(***************************************************************************)

\* calls of Produce, ProduceSync and Stop made on the producer, over all callers
MaxProducerCalls == 4

\* messages handed to one ProduceSync
MaxMsgs == 1

ErrClosed == [t |-> "errors.New", msg |-> "kafka client is closed"]

\* results.FirstErr() of a ProduceSync in which a record failed
FirstErr == [t |-> "errors.New", msg |-> "record not produced"]

\* a call that has returned: who called what, whether a Stop had returned
\* when it began, whether it handed anything to p.client, and what it
\* returned (for Produce: what it passed to the callback itself)
ProducerReturned(c, op, touched, res) ==
    [caller |-> c, op |-> op, begun |-> pdBegun[c], touched |-> touched, ret |-> res]

\* the calls made so far, returned or not
ProducerCallsMade == Len(pdLog) + Cardinality({c \in Callers : pdPc[c] # "idle"})

StopHasReturned == \E k \in DOMAIN pdLog : pdLog[k].op = "Stop"

\* a caller enters Produce with one message
ProduceCall(c) ==
    /\ pdPc[c] = "idle"
    /\ ProducerCallsMade < MaxProducerCalls
    /\ pdPc' = [pdPc EXCEPT ![c] = "produce"]
    /\ pdMsgs' = [pdMsgs EXCEPT ![c] = 1]
    /\ pdBegun' = [pdBegun EXCEPT ![c] = StopHasReturned]
    /\ UNCHANGED <<pdClosed, pdMu, pdClientClosed, pdHanded, pdLog>>
    /\ UNCHANGED outsideProducer

\* p.mu.RLock(); if p.closed { p.mu.RUnlock(); callback(&msg, kafka.ErrClosed);
\* return }; p.mu.RUnlock()
ProduceCheck(c) ==
    /\ pdPc[c] = "produce"
    /\ pdMu = "free"
    /\ IF pdClosed
       THEN /\ pdLog' = Append(pdLog, ProducerReturned(c, "Produce", FALSE, ErrClosed))
            /\ pdPc' = [pdPc EXCEPT ![c] = "idle"]
       ELSE /\ pdPc' = [pdPc EXCEPT ![c] = "produceOpen"]
            /\ UNCHANGED pdLog
    /\ UNCHANGED <<pdClosed, pdMu, pdMsgs, pdBegun, pdClientClosed, pdHanded>>
    /\ UNCHANGED outsideProducer

\* the record is built and p.client.Produce(ctx, record, ...) is called; the
\* client reports the outcome to the callback later
ProduceHandOver(c) ==
    /\ pdPc[c] = "produceOpen"
    /\ pdHanded' = Append(pdHanded, [caller |-> c, op |-> "Produce",
                                     clientClosed |-> pdClientClosed > 0])
    /\ pdLog' = Append(pdLog, ProducerReturned(c, "Produce", TRUE, Nil))
    /\ pdPc' = [pdPc EXCEPT ![c] = "idle"]
    /\ UNCHANGED <<pdClosed, pdMu, pdMsgs, pdBegun, pdClientClosed>>
    /\ UNCHANGED outsideProducer

\* a caller enters ProduceSync with n messages
ProduceSyncCall(c, n) ==
    /\ pdPc[c] = "idle"
    /\ ProducerCallsMade < MaxProducerCalls
    /\ pdPc' = [pdPc EXCEPT ![c] = "produceSync"]
    /\ pdMsgs' = [pdMsgs EXCEPT ![c] = n]
    /\ pdBegun' = [pdBegun EXCEPT ![c] = StopHasReturned]
    /\ UNCHANGED <<pdClosed, pdMu, pdClientClosed, pdHanded, pdLog>>
    /\ UNCHANGED outsideProducer

\* p.mu.RLock(); closed := p.closed; p.mu.RUnlock(); if closed { return
\* kafka.ErrClosed }; if len(msgs) == 0 { return nil }
ProduceSyncCheck(c) ==
    /\ pdPc[c] = "produceSync"
    /\ pdMu = "free"
    /\ IF pdClosed \/ pdMsgs[c] = 0
       THEN /\ pdLog' = Append(pdLog, ProducerReturned(c, "ProduceSync", FALSE,
                                       IF pdClosed THEN ErrClosed ELSE Nil))
            /\ pdPc' = [pdPc EXCEPT ![c] = "idle"]
       ELSE /\ pdPc' = [pdPc EXCEPT ![c] = "produceSyncOpen"]
            /\ UNCHANGED pdLog
    /\ UNCHANGED <<pdClosed, pdMu, pdMsgs, pdBegun, pdClientClosed, pdHanded>>
    /\ UNCHANGED outsideProducer

\* results := p.client.ProduceSync(ctx, records...); the first error of the
\* results is returned wrapped, nil if there is none
ProduceSyncHandOver(c, ok) ==
    /\ pdPc[c] = "produceSyncOpen"
    /\ pdHanded' = Append(pdHanded, [caller |-> c, op |-> "ProduceSync",
                                     clientClosed |-> pdClientClosed > 0])
    /\ pdLog' = Append(pdLog, ProducerReturned(c, "ProduceSync", TRUE,
                           IF ok THEN Nil ELSE Errorf("produce messages", FirstErr)))
    /\ pdPc' = [pdPc EXCEPT ![c] = "idle"]
    /\ UNCHANGED <<pdClosed, pdMu, pdMsgs, pdBegun, pdClientClosed>>
    /\ UNCHANGED outsideProducer

\* a caller enters Stop
ProducerStopCall(c) ==
    /\ pdPc[c] = "idle"
    /\ ProducerCallsMade < MaxProducerCalls
    /\ pdPc' = [pdPc EXCEPT ![c] = "stop"]
    /\ pdMsgs' = [pdMsgs EXCEPT ![c] = 0]
    /\ pdBegun' = [pdBegun EXCEPT ![c] = StopHasReturned]
    /\ UNCHANGED <<pdClosed, pdMu, pdClientClosed, pdHanded, pdLog>>
    /\ UNCHANGED outsideProducer

\* p.mu.Lock(); defer p.mu.Unlock(); if p.closed { return nil }; p.closed = true
ProducerStopLock(c) ==
    /\ pdPc[c] = "stop"
    /\ pdMu = "free"
    /\ IF pdClosed
       THEN /\ pdLog' = Append(pdLog, ProducerReturned(c, "Stop", FALSE, Nil))
            /\ pdPc' = [pdPc EXCEPT ![c] = "idle"]
            /\ UNCHANGED <<pdClosed, pdMu>>
       ELSE /\ pdClosed' = TRUE
            /\ pdMu' = c
            /\ pdPc' = [pdPc EXCEPT ![c] = "stopClosing"]
            /\ UNCHANGED pdLog
    /\ UNCHANGED <<pdMsgs, pdBegun, pdClientClosed, pdHanded>>
    /\ UNCHANGED outsideProducer

\* p.client.Close(); return nil, and the deferred p.mu.Unlock()
ProducerStopClose(c) ==
    /\ pdPc[c] = "stopClosing"
    /\ pdClientClosed' = pdClientClosed + 1
    /\ pdMu' = "free"
    /\ pdLog' = Append(pdLog, ProducerReturned(c, "Stop", TRUE, Nil))
    /\ pdPc' = [pdPc EXCEPT ![c] = "idle"]
    /\ UNCHANGED <<pdClosed, pdMsgs, pdBegun, pdHanded>>
    /\ UNCHANGED outsideProducer

ProducerNext ==
    \/ \E c \in Callers : ProduceCall(c)
    \/ \E c \in Callers : ProduceCheck(c)
    \/ \E c \in Callers : ProduceHandOver(c)
    \/ \E c \in Callers, n \in 0..MaxMsgs : ProduceSyncCall(c, n)
    \/ \E c \in Callers : ProduceSyncCheck(c)
    \/ \E c \in Callers, ok \in BOOLEAN : ProduceSyncHandOver(c, ok)
    \/ \E c \in Callers : ProducerStopCall(c)
    \/ \E c \in Callers : ProducerStopLock(c)
    \/ \E c \in Callers : ProducerStopClose(c)

\* a fresh producer, whose methods the callers call
ProducerSpecInit == Init /\ names = UniqueNames

\* Produce, ProduceSync and Stop are called on one producer, by callers that race
ProducerSpec == ProducerSpecInit /\ [][ProducerNext]_vars

(***************************************************************************)
(* config engine: New, With and Scan.  A source sets the fields it         *)
(* recognises; the scanned value records, for each field, the position in  *)
(* c.sources of the source that set it last, 0 for a field never set.      *)
(***************************************************************************)

\* sources handed to With, over all its calls
MaxSources == 2

\* the sources a caller can hand to With
CustomSources == {Source("custom", fs, e) : fs \in SUBSET Fields, e \in BOOLEAN}

\* what a failing source returns
SourceError(k) == [t |-> "source", idx |-> k]

\* the arguments of one With call: up to n sources
SourceLists(n) == UNION {[1..m -> CustomSources] : m \in 1..n}

\* c.sources = append(c.sources, sources...)
With(srcs) ==
    /\ scanPc = "building"
    /\ Len(supplied) + Len(srcs) <= MaxSources
    /\ sources' = sources \o srcs
    /\ supplied' = supplied \o srcs
    /\ UNCHANGED <<scanPc, scanIdx, scanTarget, scanned, scanErr>>
    /\ UNCHANGED outsideScan

\* Scan is called: the loop over c.sources begins
ScanCall ==
    /\ scanPc = "building"
    /\ scanPc' = "scanning"
    /\ scanIdx' = 1
    /\ UNCHANGED <<sources, supplied, scanTarget, scanned, scanErr>>
    /\ UNCHANGED outsideScan

\* source.Scan(p) of the source at position k: the fields it recognises are set
ApplySource(k, p) == [f \in Fields |-> IF f \in sources[k].fields THEN k ELSE p[f]]

\* the result of source.Scan(p) of the source at position k
SourceResult(k) == IF sources[k].fails THEN SourceError(k) ELSE Nil

\* variant of ScanAborts that goes on to the next source
ScanAborts_Never(err) == FALSE

\* if err := source.Scan(p); err != nil { return err }
ScanAborts(err) == err # Nil

\* one iteration of the loop of Scan
ScanSource ==
    /\ scanPc = "scanning"
    /\ scanIdx <= Len(sources)
    /\ scanTarget' = ApplySource(scanIdx, scanTarget)
    /\ scanned' = Append(scanned, scanIdx)
    /\ IF ScanAborts(SourceResult(scanIdx))
       THEN /\ scanErr' = SourceResult(scanIdx)
            /\ scanPc' = "returned"
            /\ UNCHANGED scanIdx
       ELSE /\ scanIdx' = scanIdx + 1
            /\ UNCHANGED <<scanPc, scanErr>>
    /\ UNCHANGED <<sources, supplied>>
    /\ UNCHANGED outsideScan

\* return nil, after the last source
ScanReturn ==
    /\ scanPc = "scanning"
    /\ scanIdx > Len(sources)
    /\ scanErr' = Nil
    /\ scanPc' = "returned"
    /\ UNCHANGED <<sources, supplied, scanIdx, scanTarget, scanned>>
    /\ UNCHANGED outsideScan

ScanNext ==
    \/ \E srcs \in SourceLists(MaxSources) : With(srcs)
    \/ ScanCall
    \/ ScanSource
    \/ ScanReturn

\* config.New() with some default source
ScanSpecInit ==
    /\ RunInit /\ Constructed /\ PipelineInit /\ NoProgram /\ ConsumerInit /\ ProducerInit
    /\ names = UniqueNames
    /\ \E def \in DefaultSources : EngineInit(def)

\* sources are added to an engine, and Scan is called on it
ScanSpec == ScanSpecInit /\ [][ScanNext]_vars

(* ------------------------- reading the history ------------------------ *)

\* the "call" events of operation op made in the given phase, in order
Calls(op, phase) ==
    SelectSeq(log, LAMBDA e : e.op = op /\ e.phase = phase /\ e.ev = "call")
\* the "ret" events of operation op made in the given phase, in order
Rets(op, phase) ==
    SelectSeq(log, LAMBDA e : e.op = op /\ e.phase = phase /\ e.ev = "ret")
\* the events of one Run call
RunLog(r) == SelectSeq(log, LAMBDA e : e.run = r)

\* every call has returned before the next call begins
Sequential(s) ==
    \A k \in 1..Len(s) :
        IF k % 2 = 1
        THEN s[k].ev = "call"
        ELSE /\ s[k].ev = "ret"
             /\ s[k].op = s[k-1].op
             /\ s[k].idx = s[k-1].idx
             /\ s[k].run = s[k-1].run

\* no component's Start has returned an error
AllStartsOk == \A k \in 1..Len(log) : ~(log[k].op = "Start" /\ log[k].res = "err")
\* one of the shutdown-trigger sources has occurred
TriggerOccurred == exitCalls > 0 \/ ctxDone \/ appCtxDone \/ sigLog # <<>>
\* the Run call went past the already-started check and has returned
Finished(r) == pc[r] = "returned" /\ ret[r] # ErrApplicationAlreadyStarted

(* ------------------------------- claims ------------------------------- *)

\* C1: when every Start succeeds, Run invokes each component's Start exactly
\* once, one call after the other in declared order, and after the shutdown
\* trigger each component's Stop exactly once, one call after the other in
\* reverse declared order; no Stop is invoked before the last Start returned.
C1_StartThenReverseStop ==
    AllStartsOk =>
        LET starts == Calls("Start", "start")
            stops == Calls("Stop", "stop")
        IN  /\ Sequential(log)
            /\ \A k \in 1..Len(starts) : starts[k].idx = k
            /\ \A k \in 1..Len(stops) : stops[k].idx = NumComponents + 1 - k
            /\ \A k \in 1..Len(log) : log[k].phase # "rollback"
            /\ stops # <<>> =>
                    /\ Len(Rets("Start", "start")) = NumComponents
                    /\ TriggerOccurred
            /\ \A r \in Runners : Finished(r) =>
                    /\ Len(starts) = NumComponents
                    /\ Len(Rets("Stop", "stop")) = NumComponents

\* a Run call whose Starts all succeeded has stopped every component and returned
C1_Witness ==
    \E r \in Runners :
        /\ Finished(r)
        /\ AllStartsOk
        /\ Len(Rets("Stop", "stop")) = NumComponents

\* C2: for every registry, display names unique or not, a start failure at
\* index k makes the start phase invoke Stop on exactly the components at the
\* indices k-1 down to 1, each once and in that order; component k and the
\* ones after it are never stopped and the ones after it are never started.
C2_RollbackStopsStartedInReverse ==
    \A r \in Runners : startErr[r] # Nil =>
        LET k == Len(startedComponents[r]) + 1
            rb == SelectSeq(RunLog(r), LAMBDA e : e.phase = "rollback" /\ e.ev = "call")
            st == SelectSeq(RunLog(r), LAMBDA e : e.op = "Start" /\ e.ev = "call")
        IN  /\ \A m \in 1..Len(rb) : rb[m].idx = k - m
            /\ Len(rb) <= k - 1
            /\ pc[r] = "returned" => Len(rb) = k - 1
            /\ \A m \in 1..Len(st) : st[m].idx = m
            /\ Len(st) = k
            /\ SelectSeq(RunLog(r), LAMBDA e : e.phase = "stop") = <<>>

\* C3: once Run has been called on a supervisor, every later call of Run
\* returns ErrApplicationAlreadyStarted and invokes no component's Start or
\* Stop, whether the first call is still running or has returned.
C3_RunNotReentrant ==
    \A r \in Runners : (r > 1 /\ pc[r] \notin {"idle", "locked"}) =>
        /\ pc[r] = "returned"
        /\ ret[r] = ErrApplicationAlreadyStarted
        /\ RunLog(r) = <<>>

\* a later Run call has returned while the first call had already invoked components
C3_Witness ==
    \E r \in Runners :
        /\ r > 1
        /\ pc[r] = "returned"
        /\ RunLog(1) # <<>>

\* the index of the component whose Start failed in Run call r
FailedIndex(r) == Len(startedComponents[r]) + 1
\* the ComponentError values reachable from e by unwrap
ComponentErrors(e) == {x \in Chain(e) : x.t = "ComponentError"}

\* C4: when a component's Start returns an error, Run returns an error
\* without entering the wait phase or the stop phase, and the returned error
\* has in its unwrap chain a ComponentError naming the failing component with
\* Phase "start", and the component's original error.
C4_StartErrorReturned ==
    \A r \in Runners : startErr[r] # Nil =>
        /\ pc[r] \in {"rollback", "inRollback", "returned"}
        /\ waitCause[r] = "none"
        /\ SelectSeq(RunLog(r), LAMBDA e : e.phase = "stop") = <<>>
        /\ pc[r] = "returned" =>
            /\ ret[r] # Nil
            /\ \E x \in ComponentErrors(ret[r]) :
                    /\ x.Component = names[FailedIndex(r)]
                    /\ x.Phase = "start"
                    /\ x.Err = CauseOf("Start", FailedIndex(r))
            /\ CauseOf("Start", FailedIndex(r)) \in Chain(ret[r])

\* Run has returned after the Start of a component other than the first failed
C4_Witness ==
    \E r \in Runners :
        /\ pc[r] = "returned"
        /\ startErr[r] # Nil
        /\ FailedIndex(r) > 1

\* C5: errors returned by Stop during rollback never replace or suppress the
\* start error: whatever the rollback Stops return, the error of the start
\* phase wraps the ComponentError of the component whose Start failed and
\* nothing of a rollback Stop, and rollback goes on to the remaining started
\* components after a rollback Stop has failed.
C5_RollbackErrorsOnlyLogged ==
    \A r \in Runners : (pc[r] = "returned" /\ startErr[r] # Nil) =>
        /\ ComponentErrors(ret[r]) =
                {ComponentError(names[FailedIndex(r)], ComponentPhaseStart,
                                CauseOf("Start", FailedIndex(r)))}
        /\ \A x \in Chain(ret[r]) : x.t = "cause" => x.op = "Start"
        /\ Len(SelectSeq(RunLog(r), LAMBDA e : e.phase = "rollback" /\ e.ev = "ret"))
                = Len(startedComponents[r])

\* the start phase has returned after a rollback Stop failed and a later
\* rollback Stop was still made
C5_Witness ==
    \E r \in Runners :
        /\ pc[r] = "returned"
        /\ startErr[r] # Nil
        /\ LET rb == SelectSeq(RunLog(r), LAMBDA e : e.phase = "rollback" /\ e.ev = "ret")
           IN  \E m \in 1..Len(rb) : rb[m].res = "err" /\ m < Len(rb)

\* the indices of the components whose stop-phase Stop failed in Run call r
FailedStops(r) ==
    {log[m].idx : m \in {n \in 1..Len(log) : /\ log[n].run = r
                                              /\ log[n].phase = "stop"
                                              /\ log[n].res = "err"}}

\* C6: the stop phase never short-circuits: every component's Stop is invoked
\* whichever earlier Stops failed; Run's result is nil iff no Stop failed, and
\* otherwise a joined error from which exactly one ComponentError with Phase
\* "stop" per failing component, and each original cause, is reachable.
C6_StopAggregatesAll ==
    \A r \in Runners : (Finished(r) /\ startErr[r] = Nil) =>
        LET failed == FailedStops(r)
            chain == Chain(ret[r])
        IN  /\ Len(SelectSeq(log, LAMBDA e : e.run = r /\ e.phase = "stop" /\ e.ev = "ret"))
                    = NumComponents
            /\ (ret[r] = Nil) <=> (failed = {})
            /\ {x \in chain : x.t = "ComponentError"} =
                    {ComponentError(names[k], ComponentPhaseStop, CauseOf("Stop", k)) :
                        k \in failed}
            /\ \A k \in failed : CauseOf("Stop", k) \in chain
            /\ failed # {} =>
                    \E x \in chain : x.t = "join" /\ Len(x.errs) = Cardinality(failed)

\* Run has returned after the first Stop of the stop phase failed and at
\* least one more Stop failed as well
C6_Witness ==
    \E r \in Runners :
        /\ Finished(r)
        /\ startErr[r] = Nil
        /\ NumComponents \in FailedStops(r)
        /\ Cardinality(FailedStops(r)) >= 2

\* C7: after a successful start phase Run does not begin the stop phase until
\* a shutdown trigger has occurred, and once an interrupt or terminate signal,
\* a call of Exit or a cancellation of the caller's or of the supervisor's
\* context occurs it goes on to the stop phase: it never happens that the
\* stop phase has begun without a trigger, nor that the process is ended by
\* a signal while Run waits, so that the stop phase can no longer begin.
C7_StopPhaseFollowsTrigger ==
    /\ \A r \in Runners : waitCause[r] # "none" => TriggerOccurred
    /\ \A r \in Runners : pc[r] = "wait" => ~killed

\* C8: Exit never blocks, and one or more calls of it, before Run or while
\* Run is in progress, have the outcome of a single call: the shutdown
\* trigger stays pending until the goroutine of setupSignalHandling closes
\* shutdownCh, and a Run whose start phase succeeded returns having started
\* every component once and stopped every component once.
C8_ExitIdempotent ==
    /\ (~killed /\ events < MaxEvents) => ENABLED Exit
    /\ \A r \in Runners : (exitCalls >= 1 /\ shutdownCh[r] = "open") =>
            /\ stopCh = 1
            /\ gpc[r] \in {"notify", "select"}
    /\ \A r \in Runners : (exitCalls >= 1 /\ Finished(r) /\ startErr[r] = Nil) =>
            /\ \A k \in Indices :
                  /\ Cardinality({m \in 1..Len(log) : /\ log[m].op = "Start"
                                                      /\ log[m].ev = "call"
                                                      /\ log[m].idx = k}) = 1
                  /\ Cardinality({m \in 1..Len(log) : /\ log[m].op = "Stop"
                                                      /\ log[m].ev = "call"
                                                      /\ log[m].idx = k}) = 1

\* Exit was called more than once, nothing else triggered the shutdown, and
\* Run has gone through the stop phase and returned
C8_Witness ==
    \E r \in Runners :
        /\ exitCalls >= 2
        /\ ~ctxDone /\ ~appCtxDone /\ sigLog = <<>>
        /\ Finished(r)
        /\ waitCause[r] = "shutdownCh"

\* C9: when the shutdown trigger is the cancellation of the caller's context,
\* the context passed to the first Stop call of the stop phase is not yet
\* cancelled.
C9_StopContextFresh ==
    \A r \in Runners : waitCause[r] = "ctx" =>
        \A k \in 1..Len(log) :
            (/\ log[k].run = r
             /\ log[k].phase = "stop"
             /\ log[k].ev = "call"
             /\ log[k].idx = StopLoopStart) => ~log[k].ctxDone

\* C10: if the start phase succeeded, the caller's context was then cancelled
\* and every Stop returned nil, Run has invoked Stop on every component and
\* returns nil.
C10_CancelDuringWaitReturnsNil ==
    \A r \in Runners :
        (pc[r] = "returned" /\ waitCause[r] = "ctx" /\ FailedStops(r) = {}) =>
            /\ ret[r] = Nil
            /\ Len(SelectSeq(RunLog(r), LAMBDA e : e.phase = "stop" /\ e.ev = "ret"))
                    = NumComponents
            /\ \A k \in Indices :
                    \E m \in 1..Len(log) :
                        log[m].run = r /\ log[m].phase = "stop" /\ log[m].idx = k

\* Run has returned after the caller's context was cancelled during the wait,
\* with auxiliary work still outstanding, so the drain wait ended on the context
C10_Witness ==
    \E r \in Runners :
        /\ pc[r] = "returned"
        /\ waitCause[r] = "ctx"
        /\ FailedStops(r) = {}
        /\ wg > 0

\* C11: after the last Stop of the stop phase, stop() returns only once the
\* outstanding-work counter has drained or the stop-phase context is done;
\* the expiry of the context during the drain is not reported: the result
\* carries no context error and is nil iff no component's Stop failed.
C11_DrainWaitsAndNeverFails ==
    \A r \in Runners : (Finished(r) /\ startErr[r] = Nil) =>
        /\ wg = 0 \/ StopCtxDone(r)
        /\ ContextCanceled \notin Chain(ret[r])
        /\ \A x \in Chain(ret[r]) : x.t = "cause" => x.op = "Stop"
        /\ (ret[r] = Nil) <=> (FailedStops(r) = {})

\* Run has returned nil although the stop deadline expired during the stop
\* phase with auxiliary work still outstanding
C11_Witness ==
    \E r \in Runners :
        /\ Finished(r)
        /\ startErr[r] = Nil
        /\ stopExpired[r] /\ ~ctxDone
        /\ wg > 0
        /\ ret[r] = Nil

\* a statement of Run call r, or of start() and stop() called by it, that the
\* calling goroutine can execute without a component body returning to it
SupervisorStep(r) ==
    \/ RunLock(r)
    \/ RunCheckStarted(r)
    \/ SetupSignalHandling(r)
    \/ StartCall(r)
    \/ RollbackCall(r)
    \/ StartFailed(r)
    \/ StartDone(r)
    \/ \E cause \in {"shutdownCh", "ctx"} : Wait(r, cause)
    \/ StopCall(r)
    \/ \E timedOut \in BOOLEAN : StopDrain(r, timedOut)

\* the deadline of the phase Run call r is in has passed while the call is
\* inside a component's Start or Stop
DeadlinePassedInCall(r) ==
    \/ pc[r] \in {"inStart", "inRollback"} /\ startExpired[r]
    \/ pc[r] = "inStop" /\ stopExpired[r]

\* C12: a Start or Stop body that ignores its context does not hold the
\* supervisor: once the phase deadline has passed while Run is inside a
\* component call, Run can go on, to the next component or to returning,
\* without that call returning.
C12_SupervisorProceedsPastDeadline ==
    \A r \in Runners :
        (~killed /\ DeadlinePassedInCall(r)) => ENABLED SupervisorStep(r)

\* the option is one New must reject: a non-positive deadline, a nil logger
\* or an empty hostname
RejectedOption(o) ==
    \/ o.f \in {"WithStartTimeout", "WithStopTimeout"} /\ o.timeout <= 0
    \/ o.f = "WithLogger" /\ o.logger = "nil"
    \/ o.f = "WithHostname" /\ o.hostname = ""

\* the positions of `options` holding the last option of each kind
LastOfKind ==
    {k \in 1..Len(options) :
        \A m \in (k + 1)..Len(options) : options[m].f # options[k].f}

\* the field of Application the option at position k sets has that option's value
FieldHasValueOf(k) ==
    LET o == options[k]
    IN  CASE o.f = "WithName" -> app.name = o.name
          [] o.f = "WithStartTimeout" -> app.startTimeout = o.timeout
          [] o.f = "WithStopTimeout" -> app.stopTimeout = o.timeout
          [] o.f = "WithLogger" -> app.log = o.logger
          [] o.f = "WithHostname" -> app.hostname = o.hostname
          [] o.f = "WithComponents" -> app.components = o.components

\* C13: every Application New returns has positive start and stop deadlines,
\* a non-nil logger and a non-empty hostname; New returns an error when an
\* option gives a non-positive deadline, a nil logger or an empty hostname;
\* without options both deadlines are 30 seconds and the name is
\* "application"; of options of the same kind the last one decides the field.
C13_NewValidatesAndDefaults ==
    newPc = "returned" =>
        /\ newErr = Nil =>
                /\ app.startTimeout > 0
                /\ app.stopTimeout > 0
                /\ app.log # "nil"
                /\ app.hostname # ""
        /\ (\E k \in 1..Len(options) : RejectedOption(options[k])) => newErr # Nil
        /\ (newErr = Nil /\ options = <<>>) =>
                /\ app.startTimeout = 30
                /\ app.stopTimeout = 30
                /\ app.name = "application"
        /\ newErr = Nil => \A k \in LastOfKind : FieldHasValueOf(k)

\* New has returned an Application after two start deadlines were given,
\* the first different from the second
C13_Witness ==
    /\ newPc = "returned"
    /\ newErr = Nil
    /\ Len(options) = 2
    /\ options[1].f = "WithStartTimeout"
    /\ options[2].f = "WithStartTimeout"
    /\ options[1].timeout # options[2].timeout
    /\ app.startTimeout = options[2].timeout

\* C14: New rejects a nil component and an empty display name: every
\* Application it returns has only non-nil entries in its registry and a
\* non-empty name, and it returns an error when WithComponents was given a
\* nil entry or WithName the empty string.
C14_NewRejectsNilComponentAndEmptyName ==
    newPc = "returned" =>
        /\ newErr = Nil =>
                /\ \A k \in 1..Len(app.components) : app.components[k] # "nil"
                /\ app.name # ""
        /\ (\E k \in 1..Len(options) :
                \/ options[k].f = "WithName" /\ options[k].name = ""
                \/ /\ options[k].f = "WithComponents"
                   /\ \E m \in 1..Len(options[k].components) :
                            options[k].components[m] = "nil") => newErr # Nil

(* ------------------------ claims about Pipeline.Run ------------------- *)

\* the slots invoked for the current layer so far
RanSlots == {ran[k].slot : k \in 1..Len(ran)}
\* the invocation of the given slot recorded for the current layer
Entry(slot) == ran[CHOOSE k \in 1..Len(ran) : ran[k].slot = slot]
\* how many times the given slot was invoked for the current layer
Count(slot) == Cardinality({k \in 1..Len(ran) : ran[k].slot = slot})
\* the loop is inside the body of a layer that is not a reset marker
InLayer == plPc \notin {"loop", "done"}
\* the current layer executes: no rolling error on arrival, and primary steps
Executes == errIn = Nil /\ layer.funcs > 0

\* C15: once a layer has left a non-nil rolling error, no step, catcher or
\* fallback of a later layer is invoked, the rolling error stays that error
\* and the terminal callback receives it; a reset marker clears the rolling
\* error, and the layer after it executes if it has primary steps.
C15_FailedLayerSkipsTheRest ==
    /\ failedAt.idx # 0 => pErr = failedAt.err /\ pErr # Nil
    /\ (failedAt.idx # 0 /\ InLayer /\ layerIdx > failedAt.idx) =>
            RanSlots \subseteq {"before", "after"}
    /\ (failedAt.idx # 0 /\ plPc = "done") => errFuncArg = failedAt.err
    /\ (InLayer /\ resetAt # 0 /\ resetAt = layerIdx - 1) =>
            /\ errIn = Nil
            /\ (plPc = "endLayer" /\ layer.funcs > 0) => "funcs" \in RanSlots

\* the first layer left an error, every later layer was passed without a
\* reset and the terminal callback was called
C15_Witness ==
    /\ plPc = "done"
    /\ failedAt.idx = 1
    /\ layerIdx = MaxLayers
    /\ resetAt = 0
    /\ errFuncArg = failedAt.err

\* C16: the before and after hooks of a layer are invoked iff the layer
\* executes: for a layer passed over because of the rolling error or for
\* want of primary steps neither hook is invoked; for a layer that executes,
\* before is invoked once ahead of every step and after once behind every
\* other slot.
C16_HooksIffLayerExecutes ==
    /\ (InLayer /\ ~Executes) => RanSlots \cap {"before", "after"} = {}
    /\ (plPc = "endLayer" /\ Executes) =>
            /\ layer.before => Count("before") = 1 /\ ran[1].slot = "before"
            /\ layer.after => Count("after") = 1 /\ ran[Len(ran)].slot = "after"

\* a statement of Run that the goroutine calling Run can execute next, or a
\* step of the fan-out it waits for returning
RunCanProceed ==
    \/ \E l \in LayerShapes : RunLayer(l)
    \/ RunBefore
    \/ ProcessStart
    \/ \E k \in 1..MaxSteps, ok \in BOOLEAN : StepReturn(k, ok)
    \/ \E viaCtx \in BOOLEAN : ProcessReturn(viaCtx)
    \/ \E out \in {"nil", "same", "new"} : Intercept(out)
    \/ RunAfter
    \/ RunEndLayer
    \/ RunErrFunc

\* Pipeline.Run where the goroutine calling Run is scheduled and every step
\* that was started returns
PipelineFairSpec == PipelineSpecInit /\ [][PipelineNext]_vars /\ WF_vars(RunCanProceed)

\* the terminal callback is called at most once, only after the loop over
\* the layers and with the rolling error as it is then; until it is called
\* Run has a statement to execute or a started step to wait for
ErrFuncOnceAtTheEnd ==
    /\ errFuncCalls <= 1
    /\ (errFuncCalls = 1) <=> (plPc = "done")
    /\ plPc = "done" => errFuncArg = pErr
    /\ plPc # "done" => ENABLED RunCanProceed
    /\ plPc = "loop" => ENABLED RunErrFunc

\* C17: whatever the program and the outcomes of its steps, cancellation of
\* the context included, Run calls the terminal callback exactly once, after
\* the loop over the layers, with the rolling error as it is then: it is
\* never called while a layer is in progress, never called twice, and, every
\* started step returning, Run does reach the call.
C17_ErrFuncExactlyOnce ==
    []ErrFuncOnceAtTheEnd /\ <>(plPc = "done" /\ errFuncCalls = 1)

\* the terminal callback was called with the context's error after the
\* context was cancelled during a fan-out
C17_Witness ==
    /\ plPc = "done"
    /\ errFuncCalls = 1
    /\ plCtxDone
    /\ errFuncArg = ContextCanceled

\* C18: the fallback steps of a layer are started only in a layer that
\* executes, whose primary fan-out failed and whose error thenCatch, if set,
\* did not clear; a fallback fan-out whose steps all succeed has no error to
\* return but the context's; when the fallback fan-out returns nil the
\* rolling error is nil, elseCatch is not invoked, the layer leaves no error,
\* and a layer arriving without a rolling error and with primary steps runs
\* them.
C18_FallbackOnlyAfterSurvivingError ==
    /\ "fallbacks" \in RanSlots =>
            /\ Executes
            /\ layer.fallbacks > 0
            /\ "funcs" \in RanSlots /\ Entry("funcs").res # Nil
            /\ "thenCatch" \in RanSlots => Entry("thenCatch").res # Nil
            /\ layer.thenCatcher => "thenCatch" \in RanSlots
    /\ (plPc = "inFallback" /\ \A k \in DOMAIN steps : steps[k] = "ok") => firstErr = Nil
    /\ (plPc = "endLayer" /\ "fallbacks" \in RanSlots) =>
            Entry("fallbacks").res \in
                {Nil, ContextCanceled}
                    \cup {StepError(layerIdx, "fallbacks", k) : k \in 1..layer.fallbacks}
    /\ (plPc = "endLayer" /\ "fallbacks" \in RanSlots /\ Entry("fallbacks").res = Nil) =>
            /\ pErr = Nil
            /\ "elseCatch" \notin RanSlots
            /\ failedAt.idx = 0
    /\ (plPc = "endLayer" /\ Executes) => "funcs" \in RanSlots

\* the primary fan-out failed, thenCatch returned an error, the fallback
\* steps all succeeded and the layer ended without a rolling error
C18_Witness ==
    /\ plPc = "endLayer"
    /\ "thenCatch" \in RanSlots /\ Entry("thenCatch").res # Nil
    /\ "fallbacks" \in RanSlots /\ Entry("fallbacks").res = Nil
    /\ layer.fallbacks = MaxSteps
    /\ pErr = Nil

\* C19: the elseCatch interceptor of a layer is invoked iff the fallback
\* fan-out of that layer ran and failed: never in a layer without fallback
\* steps, never after a fallback fan-out that succeeded, and always, when
\* set, after one that failed.
C19_ElseCatchIffFallbackFailed ==
    /\ "elseCatch" \in RanSlots =>
            /\ layer.fallbacks > 0
            /\ "fallbacks" \in RanSlots /\ Entry("fallbacks").res # Nil
    /\ (plPc = "endLayer" /\ layer.elseCatcher
            /\ "fallbacks" \in RanSlots /\ Entry("fallbacks").res # Nil) =>
            "elseCatch" \in RanSlots

\* C20: the thenCatch interceptor of a layer is invoked iff the primary
\* fan-out of that layer failed; it is given the fan-out's error and what it
\* returns becomes the rolling error; when it returns nil the rolling error
\* is nil, neither the fallback steps nor elseCatch run, and the layer leaves
\* no error, so the next layer arrives without one.
C20_ThenCatchIffPrimaryFailed ==
    /\ "thenCatch" \in RanSlots =>
            /\ layer.thenCatcher
            /\ "funcs" \in RanSlots /\ Entry("funcs").res # Nil
            /\ Entry("thenCatch").arg = Entry("funcs").res
    /\ (plPc = "endLayer" /\ layer.thenCatcher
            /\ "funcs" \in RanSlots /\ Entry("funcs").res # Nil) =>
            "thenCatch" \in RanSlots
    /\ (Len(ran) > 0 /\ ran[Len(ran)].slot = "thenCatch") => pErr = ran[Len(ran)].res
    /\ ("thenCatch" \in RanSlots /\ Entry("thenCatch").res = Nil) =>
            /\ pErr = Nil
            /\ RanSlots \cap {"fallbacks", "elseCatch"} = {}
            /\ failedAt.idx = 0

\* thenCatch returned nil in a layer that has fallback steps and an
\* elseCatch, and the layer ended without running either
C20_Witness ==
    /\ plPc = "endLayer"
    /\ "thenCatch" \in RanSlots /\ Entry("thenCatch").res = Nil
    /\ layer.fallbacks > 0 /\ layer.elseCatcher
    /\ pErr = Nil

(* --------------------- the idle-to-running transition ------------------ *)

\* the Run call went past the already-started test without being turned away
Proceeded(r) ==
    \/ pc[r] \notin {"idle", "locked", "returned"}
    \/ pc[r] = "returned" /\ ret[r] # ErrApplicationAlreadyStarted
\* the Run call was turned away by the already-started test
TurnedAway(r) == pc[r] = "returned" /\ ret[r] = ErrApplicationAlreadyStarted

\* C30: the test and the setting of the started flag are one step under the
\* lock: of the Run calls racing on one supervisor at most one goes on to the
\* start phase, a call goes on exactly when it found the flag unset, every
\* other call that left the lock returns ErrApplicationAlreadyStarted having
\* invoked no component, and no component's Start is invoked twice.
C30_OneRunProceeds ==
    /\ Cardinality({r \in Runners : Proceeded(r)}) <= 1
    /\ started <=> \E r \in Runners : Proceeded(r)
    /\ \A r \in Runners : (startedMu = r) <=> (pc[r] = "locked")
    /\ \A r \in Runners : ~Proceeded(r) => RunLog(r) = <<>>
    /\ \A r \in Runners : pc[r] \notin {"idle", "locked"} => Proceeded(r) \/ TurnedAway(r)
    /\ \A k \in Indices :
          Len(SelectSeq(log, LAMBDA e : e.op = "Start" /\ e.ev = "call" /\ e.idx = k)) <= 1

\* one Run call is inside a component's Start while another has been turned away
C30_Witness ==
    \E r, q \in Runners :
        /\ pc[r] = "inStart"
        /\ TurnedAway(q)
        /\ RunLog(q) = <<>>

(* --------------------------- Pipeline.process -------------------------- *)

\* a fan-out is in progress
InFanOut == plPc \in {"inPrimary", "inFallback"}

\* C22: a fan-out returns either the task group's result or the error of the
\* pipeline's context: with the context not cancelled it returns only when
\* every step has returned, nil if they all succeeded and otherwise the error
\* of the step that failed first; with the context cancelled while a step has
\* not yet returned it returns the context's error; the first failure the
\* task group has seen is never replaced by a later one.
C22_FanOutOutcome ==
    [][/\ (InFanOut /\ ~InFanOut') =>
            LET res == pErr'
                running == {k \in DOMAIN steps : steps[k] = "running"}
                failed == {k \in DOMAIN steps : steps[k] = "err"}
            IN  /\ res = ran'[Len(ran')].res
                /\ res \in {firstErr, ContextCanceled}
                /\ res = ContextCanceled => plCtxDone
                /\ ~plCtxDone => running = {} /\ res = firstErr
                /\ (~plCtxDone /\ failed = {}) => res = Nil
                /\ (~plCtxDone /\ failed # {}) => res.t = "step" /\ res.idx \in failed
                /\ (plCtxDone /\ running # {}) => res = ContextCanceled
       /\ (InFanOut /\ InFanOut' /\ firstErr # Nil) => firstErr' = firstErr
       /\ (InFanOut /\ InFanOut' /\ firstErr = Nil /\ firstErr' # Nil) =>
            \E k \in DOMAIN steps :
                /\ steps[k] = "running" /\ steps'[k] = "err"
                /\ \A j \in DOMAIN steps : steps[j] # "err"
                /\ firstErr' = StepError(layerIdx, SlotAt(plPc), k)
      ]_vars

\* a fan-out of MaxSteps steps has returned the error of its last step, the
\* first of them to fail, with the context not cancelled
C22_Witness ==
    /\ plPc = "endLayer"
    /\ ~plCtxDone
    /\ layer.funcs = MaxSteps
    /\ "funcs" \in RanSlots
    /\ Entry("funcs").res = StepError(layerIdx, "funcs", MaxSteps)

(* ------------------- cancellation of the pipeline's context ------------ *)

\* the primary fan-out of layer n returned on the context while a step of it
\* had not returned, and that step is still running
CancelledInPrimary(n) == stale.idx = n /\ stale.slot = "funcs"
\* the step slots of the current layer invoked so far
StepSlotsRan == RanSlots \cap {"funcs", "fallbacks"}

\* C24 as stated: once the context is cancelled while the primary fan-out of
\* a layer is in flight, no step of a later layer is invoked and the terminal
\* callback receives the context's error.
C24_CancelledFanOutEndsTheProgram ==
    \A n \in 1..MaxLayers : CancelledInPrimary(n) =>
        /\ (InLayer /\ layerIdx > n) => StepSlotsRan = {}
        /\ plPc = "done" => errFuncArg = ContextCanceled

\* C24, amended: a primary fan-out that returns on the context while a step
\* of it is in flight returns the context's error; when the layer leaves
\* that error as the rolling error and no reset marker follows, no step,
\* catcher or fallback of a later layer is invoked and the terminal callback
\* receives the context's error.
C24_CancellationSkipsThroughTheRollingError ==
    /\ (CancelledInPrimary(layerIdx) /\ InLayer /\ ran[Len(ran)].slot = "funcs"
            /\ ~InFanOut) => pErr = ContextCanceled
    /\ \A n \in 1..MaxLayers :
          (CancelledInPrimary(n) /\ failedAt.idx = n /\ failedAt.err = ContextCanceled) =>
              /\ (InLayer /\ layerIdx > n) => RanSlots \subseteq {"before", "after"}
              /\ plPc = "done" => errFuncArg = ContextCanceled

\* the primary fan-out of the first layer returned on the context with a step
\* in flight, a later layer was passed and the terminal callback was called
\* with the context's error while that step is still running
C24_Witness ==
    /\ CancelledInPrimary(1)
    /\ plPc = "done"
    /\ layerIdx > 1
    /\ failedAt = [idx |-> 1, err |-> ContextCanceled]
    /\ errFuncArg = ContextCanceled

\* C25: the layers run strictly one after the other: while a step of a
\* fan-out is running, no step is still running of a fan-out of an earlier
\* layer.
C25_LayersStrictlySequential ==
    (InFanOut /\ \E k \in DOMAIN steps : steps[k] = "running") =>
        (stale = NoStale \/ stale.idx = layerIdx)


\* the slots Run invoked on the built program, in the order of the calls
SlotsCalled == [k \in 1..Len(calls) |-> calls[k].slot]
\* the built program is the one of the README
IsReadme == \E n \in 1..MaxSteps, m \in 1..MaxSteps : built = Readme(n, m)
\* every fan-out that ran has failed, and every catcher returned its argument
AllFailUnchanged ==
    \A k \in 1..Len(calls) :
        /\ calls[k].slot \in {"funcs", "fallbacks"} => calls[k].res.t = "step"
        /\ calls[k].slot \in {"thenCatch", "elseCatch"} => calls[k].res = calls[k].arg

\* C23: for New(ctx).Before(b).Then(p).ThenCatch(tc).Else(f).ElseCatch(ec).
\* After(a).Run(r) in which p and f fail and the catchers return the error
\* unchanged, the callbacks are invoked in the order b, p, tc, f, ec, a, r,
\* each once, and r receives the error of f.
C23_ReadmeOrder ==
    (plPc = "done" /\ IsReadme /\ AllFailUnchanged) =>
        /\ SlotsCalled = <<"before", "funcs", "thenCatch", "fallbacks", "elseCatch",
                           "after", "errFunc">>
        /\ calls[3].arg = calls[2].res
        /\ calls[5].arg = calls[4].res
        /\ calls[7].arg = calls[4].res
        /\ errFuncArg = calls[4].res
        /\ errFuncCalls = 1

\* the README program has run to its end with p and f failing
C23_Witness ==
    /\ plPc = "done" /\ IsReadme /\ AllFailUnchanged
    /\ built = Readme(1, 1)
    /\ Len(calls) = 7
    /\ errFuncArg = StepError(2, "fallbacks", 1)


\* C21: in an executing layer, after the primary, fallback and catcher slots,
\* the error hook is invoked with the current error when an error remains, and
\* its return value replaces the rolling error.
C21_ErrorHookInvokedWhenErrorRemains ==
    (plPc = "endLayer" /\ Executes /\ layer.catchers > 0 /\ pErr # Nil) =>
        /\ "catch" \in RanSlots
        /\ Entry("catch").arg \in {Entry(slot).res : slot \in StepSlotsRan}


\* the calls of the given method that have returned
Returns(op) == {k \in 1..Len(cLog) : cLog[k].op = op}
\* the goroutines of run that are in their polling loop
Polling == {g \in 1..Len(cRuns) : cRuns[g] = "polling"}
\* no Stop has been called yet
NoStopYet == Returns("Stop") = {} /\ \A c \in Callers : cPc[c] \in {"idle", "start"}

\* C26: Start on an already started consumer returns "consumer already
\* started" and spawns no polling task; of two Start calls that race on a fresh
\* consumer one returns nil and one that error, and one polling task exists.
C26_StartOnlyOnce ==
    /\ \A k \in Returns("Start") :
           cLog[k].ret = IF cLog[k].found THEN ErrConsumerAlreadyStarted ELSE Nil
    /\ Len(cRuns) = Cardinality({k \in Returns("Start") : cLog[k].ret = Nil})
    /\ Cardinality(Polling) <= 1
    /\ cStarted => Cardinality(Polling \cup {g \in 1..Len(cRuns) : cRuns[g] = "exited"}) = 1
    /\ (NoStopYet /\ cLog # <<>>) =>
           /\ cLog[1].ret = Nil
           /\ \A k \in 2..Len(cLog) : cLog[k].ret = ErrConsumerAlreadyStarted
           /\ cRuns = <<"polling">>
           /\ cStarted

\* two callers have called Start on a fresh consumer: one nil, one error
C26_Witness ==
    /\ NoStopYet
    /\ Len(cLog) = 2
    /\ cLog[1].caller # cLog[2].caller
    /\ cLog[2].begun = 0
    /\ cRuns = <<"polling">>


\* the positions of a caller inside Stop
InStop == {"stop", "stopCancel", "stopWait", "stopLeave", "stopClose"}
\* the calls of Start that returned nil
Started == {k \in Returns("Start") : cLog[k].ret = Nil}
\* the calls of Stop that found the consumer started and returned nil
Stopped == {k \in Returns("Stop") : cLog[k].found /\ cLog[k].ret = Nil}
\* the call of c began after a Stop had stopped the consumer, and no Start
\* has returned nil since that Stop began
AfterSuccessfulStop(c) ==
    \E j \in Stopped : j <= cBegun[c] /\ \A k \in Started : k <= cLog[j].begun

\* C27: Stop on a consumer that was never started returns nil; a second Stop
\* after a successful Stop returns nil and does nothing; and a Stop whose
\* context has a sufficient deadline returns nil also when it races with
\* another Stop.
C27_StopIdempotent ==
    [][\A c \in Callers :
          (cPc[c] \in InStop /\ cPc'[c] = "idle") =>
              LET e == cLog'[Len(cLog')]
              IN  /\ e.caller = c /\ e.op = "Stop"
                  /\ e.ctx = "sufficient" => e.ret = Nil
                  /\ (Started = {} \/ AfterSuccessfulStop(c)) =>
                         /\ e.ret = Nil
                         /\ ~e.found
                         /\ UNCHANGED <<cStarted, cHasCancel, cCtxDone, cWg, cRuns, cLeft,
                                        cClosed>>
      ]_vars

\* two Stops raced on a started consumer and both returned nil, and a Stop
\* called after them returned nil at once
C27_Witness ==
    /\ Len(cLog) = 4
    /\ Started = {1}
    /\ Stopped = {2, 3}
    /\ cLog[2].caller # cLog[3].caller
    /\ cLog[3].begun = 1
    /\ cLog[2].ctx = "sufficient" /\ cLog[3].ctx = "sufficient"
    /\ cLog[4].op = "Stop" /\ cLog[4].begun = 3 /\ ~cLog[4].found /\ cLog[4].ret = Nil


\* C28: after Stop has returned on a started consumer, the client has left
\* the group and is closed, whether or not the goroutine of run finished
\* before the deadline of the stop context.
C28_StopLeavesAndCloses ==
    \A k \in Returns("Stop") : cLog[k].found => (cLeft > 0 /\ cClosed > 0)


\* the positions in c.sources of the sources whose Scan fails
Failing == {k \in 1..Len(sources) : sources[k].fails}
\* the least of a non-empty set of positions
Least(S) == CHOOSE k \in S : \A j \in S : k <= j
\* the greatest of a set of positions, 0 for the empty set
Greatest(S) == IF S = {} THEN 0 ELSE CHOOSE k \in S : \A j \in S : j <= k
\* the last source Scan has to call: the first that fails, else the last
LastApplied == IF Failing = {} THEN Len(sources) ELSE Least(Failing)
\* the sources up to LastApplied that recognise the field
Recognising(f) == {k \in 1..LastApplied : f \in sources[k].fields}

\* C29: the engine applies its sources in the order supplied, the default
\* source first, so the value of the last source that recognises a field wins;
\* when a source returns an error Scan returns that error and applies no later
\* source.
C29_SourcesInOrderAbortOnError ==
    /\ sources[1].name = "default"
    /\ Tail(sources) = supplied
    /\ scanned = [k \in 1..Len(scanned) |-> k]
    /\ scanPc = "returned" =>
           /\ Len(scanned) = LastApplied
           /\ scanErr = IF Failing = {} THEN Nil ELSE SourceError(Least(Failing))
           /\ \A f \in Fields : scanTarget[f] = Greatest(Recognising(f))

\* Scan has returned nil: a field set by the default source and by two
\* supplied sources has the value of the last of them, and a field the last
\* source does not recognise has the value of the source before it
C29_Witness ==
    /\ scanPc = "returned"
    /\ Len(sources) = 3
    /\ Failing = {}
    /\ \A k \in 1..3 : "Timeout" \in sources[k].fields
    /\ sources[3].fields = {"Timeout"} /\ sources[2].fields = Fields
    /\ scanTarget = [f \in Fields |-> IF f = "Timeout" THEN 3 ELSE 2]
    /\ scanErr = Nil


\* a case of the select of the goroutine of setupSignalHandling fires in this
\* step: a signal is taken from sigCh, a token from a.stopCh, or the goroutine
\* ends
SelectFires(r) ==
    /\ gpc[r] = "select"
    /\ \/ gpc'[r] = "done"
       \/ sigCh[r] # <<>> /\ sigCh'[r] = <<>>
       \/ stopCh' < stopCh
\* a source that closes the channel has occurred: a signal the goroutine is
\* notified of, a call of Exit, or cancellation of a.ctx
ChannelSourceOccurred ==
    \/ \E k \in 1..Len(sigLog) : sigLog[k] \in NotifiedSignals
    \/ exitCalls > 0
    \/ appCtxDone

\* C31: the channel returned by setupSignalHandling is closed at most once,
\* is not closed before a source of the trigger has occurred, and once closed
\* stays closed.
C31_TriggerStreamSingleUse ==
    [][\A r \in Runners :
          /\ shutdownCh[r] = "closed" => shutdownCh'[r] = "closed"
          /\ (shutdownCh[r] # "closed" /\ shutdownCh'[r] = "closed") =>
                 SelectFires(r) /\ ChannelSourceOccurred
          /\ SelectFires(r) =>
                 /\ shutdownCh[r] = "open"
                 /\ shutdownCh'[r] = "closed"
                 /\ gpc'[r] = "done"
      ]_vars

\* two sources of the trigger have occurred, and the channel was closed by the
\* first
C31_Witness ==
    \E r \in Runners :
        /\ shutdownCh[r] = "closed"
        /\ gpc[r] = "done"
        /\ exitCalls = 1 /\ stopCh = 0
        /\ appCtxDone


\* the Run call is inside a component's Start or Stop
InComponentCall(r) == pc[r] \in {"inStart", "inRollback", "inStop"}

\* C32: while a component's Start or Stop is being executed a.startedMu is
\* not held by the Run call that executes it, so a concurrent Run call is not
\* kept waiting by the component call; Exit takes no lock.
C32_NoLockAcrossComponentCall ==
    /\ \A r \in Runners : startedMu = r <=> pc[r] = "locked"
    /\ \A r \in Runners : (InComponentCall(r) /\ ~killed) =>
           /\ startedMu # r
           /\ startedMu # 0 => ENABLED RunCheckStarted(startedMu)
           /\ (startedMu = 0 /\ \E q \in Runners : pc[q] = "idle") =>
                  ENABLED (\E q \in Runners : RunLock(q))
           /\ events < MaxEvents => ENABLED Exit

\* a component's Stop is being executed while another Run call holds the lock
C32_Witness ==
    \E r \in Runners, q \in Runners :
        /\ pc[r] = "inStop"
        /\ pc[q] = "locked"
        /\ startedMu = q
        /\ ~killed


\* C38: each rollback Stop is invoked with a context that is live at the time
\* of the call, also when the start failure was caused by expiry of the
\* start-phase deadline.
C38_RollbackStopContextLive ==
    \A k \in 1..Len(log) :
        (log[k].op = "Stop" /\ log[k].phase = "rollback" /\ log[k].ev = "call") =>
            ~log[k].ctxDone


\* the calls of the Stop of the component at index c made by the Run call, in
\* the given phase
StopCallsOf(r, c, phase) ==
    {k \in 1..Len(log) : /\ log[k].run = r /\ log[k].op = "Stop" /\ log[k].ev = "call"
                         /\ log[k].idx = c /\ log[k].phase = phase}
\* the start phase of the Run call has failed
StartPhaseFailed(r) ==
    \E k \in 1..Len(log) : log[k].run = r /\ log[k].op = "Start" /\ log[k].res = "err"

\* C37: in one Run, rollback runs only when the start phase fails and the stop
\* phase only when it succeeds, so each component's Stop is invoked at most
\* once per Run, and the error of the stop phase holds at most one
\* ComponentError per component.
C37_StopAtMostOncePerRun ==
    \A r \in Runners, c \in Indices :
        /\ StopCallsOf(r, c, "rollback") # {} => StartPhaseFailed(r)
        /\ StopCallsOf(r, c, "stop") # {} => ~StartPhaseFailed(r)
        /\ Cardinality(StopCallsOf(r, c, "rollback") \cup StopCallsOf(r, c, "stop")) <= 1
        /\ Cardinality({k \in 1..Len(errs[r]) : errs[r][k].Err.idx = c}) <= 1


\* the goroutine of setupSignalHandling of the Run call ends without a further
\* signal, Exit call or cancellation: a case of its select is ready
GoCanEnd(r) ==
    \/ stopCh > 0
    \/ appCtxDone
    \/ gpc[r] = "select" /\ sigCh[r] # <<>>

\* C36: when Run returns, also when it returns early because the start phase
\* failed, the goroutine started by setupSignalHandling has ended, or ends
\* without a further signal, Exit call or cancellation, and its signal
\* registration is released.
C36_SignalGoroutineEndsWithRun ==
    \A r \in Runners :
        (Finished(r) /\ ~killed) => (gpc[r] = "done" \/ GoCanEnd(r))


\* the layer the k-th builder call of the program targets: New, Then and
\* Reset open a layer, every other call goes to the last layer opened so far
LayerOfCall(k) ==
    Cardinality({j \in 1..k : program[j].m \in {"New", "Then", "Reset"}})
\* the builder methods that fill the given slot
MethodsOf(slot) ==
    CASE slot = "funcs" -> {"New", "Then"}
      [] slot = "fallbacks" -> {"Else"}
      [] slot = "thenCatch" -> {"ThenCatch"}
      [] slot = "elseCatch" -> {"ElseCatch"}
      [] slot = "before" -> {"Before"}
      [] slot = "after" -> {"After"}
\* the builder calls that handed callbacks to the given slot of the layer
CallsFor(slot, l) ==
    {k \in 1..Len(program) :
        /\ program[k].m \in MethodsOf(slot)
        /\ LayerOfCall(k) = l
        /\ slot \in {"funcs", "fallbacks"} => program[k].n > 0}
\* the only builder call whose callbacks may be invoked for the slot: for Else
\* the first, for the other methods the last
Winner(slot, l) ==
    IF slot = "fallbacks" THEN Least(CallsFor(slot, l)) ELSE Greatest(CallsFor(slot, l))

FanOutSize == IF plPc = "inPrimary" THEN layer.funcs ELSE layer.fallbacks

StepsRunning == \E k \in DOMAIN steps : steps[k] = "running"

\* C34: a fan-out starts all its n steps with the one context the task group
\* derived; once a step has returned an error that context is cancelled for
\* the steps still running; and the fan-out returns with a step still running
\* only when the pipeline's own context is cancelled.
C34_FanOutSharedContext ==
    [][/\ (~InFanOut /\ InFanOut') =>
              /\ DOMAIN steps' = 1..FanOutSize'
              /\ \A k \in DOMAIN steps' : steps'[k] = "running"
              /\ groupCtx' \in {"live", "cancelled"}
       /\ (InFanOut' /\ \E k \in DOMAIN steps' : steps'[k] = "err") =>
              groupCtx' = "cancelled"
       /\ (InFanOut /\ ~InFanOut' /\ StepsRunning) => plCtxDone
      ]_vars

\* a fan-out of two steps with a live pipeline context: one step has returned
\* an error, its sibling is still running and the derived context is cancelled
C34_Witness ==
    /\ InFanOut
    /\ ~plCtxDone
    /\ Len(steps) = 2
    /\ \E k \in DOMAIN steps : steps[k] = "err"
    /\ StepsRunning
    /\ groupCtx = "cancelled"

\* C35: no goroutine of a fan-out outlives the steps of that fan-out; the
\* goroutine that sends the task group's result on errCh is never left
\* parked on that send after process() has returned.
C35_FanOutGoroutinesTerminate == ~blocked

\* C39: whatever the interleaving of Start and Stop calls, the client leaves
\* the group and is closed at most once, and exactly once as soon as a Stop
\* that found the consumer started has returned.
C39_LeaveAndCloseExactlyOnce ==
    /\ cLeft <= 1
    /\ cClosed <= 1
    /\ (\E k \in Returns("Stop") : cLog[k].found) => (cLeft = 1 /\ cClosed = 1)

\* C40: the producer closes its client at most once, and once as soon as a
\* Stop has returned; a Produce or ProduceSync that begins after a Stop has
\* returned reports ErrClosed and hands nothing to the client; and no call
\* hands a record to the client once the client has been closed.
C40_ProducerConcurrencySafe ==
    /\ pdClientClosed <= 1
    /\ StopHasReturned => pdClientClosed = 1
    /\ \A k \in DOMAIN pdLog :
           (pdLog[k].op \in {"Produce", "ProduceSync"} /\ pdLog[k].begun) =>
               (pdLog[k].ret = ErrClosed /\ ~pdLog[k].touched)
    /\ \A k \in DOMAIN pdHanded : ~pdHanded[k].clientClosed

====
